---- MODULE Spec2Model ----
(***************************************************************************)
(* CPU based framebuffer tile / detile logic of libavutil/fbtile.c.        *)
(*                                                                         *)
(* A walker call is modelled one loop iteration per step; every memcpy of  *)
(* an iteration is applied to the destination buffer in program order.     *)
(***************************************************************************)
EXTENDS Integers, Sequences, FiniteSets, TLC

(***************************************************************************)
(* Enumerations of fbtile.h and the status values of fbtile.c              *)
(***************************************************************************)
FF_FBTILE_OPS_NONE == 0
FF_FBTILE_OPS_TILE == 1
FF_FBTILE_OPS_DETILE == 2
FF_FBTILE_OPS_UNKNOWN == 3

FF_FBTILE_FAMILY_DRM == 0
FF_FBTILE_FAMILY_UNKNOWN == 1

FF_FBTILE_NONE == 0
FF_FBTILE_INTEL_XGEN9 == 1
FF_FBTILE_INTEL_YGEN9 == 2
FF_FBTILE_INTEL_YF == 3
FF_FBTILE_UNKNOWN == 4

FF_FBTILE_FRAMECOPY_TILECOPY == 0
FF_FBTILE_FRAMECOPY_COPYONLY == 1

FBT_OK == 0
\* AVERROR(e) is -e; EINVAL is 22 and EALREADY is 114 on Linux
AVERROR_EINVAL == -22
AVERROR_EALREADY == -114

(***************************************************************************)
(* The TileWalk descriptors                                                *)
(***************************************************************************)
DC(p, x, y) == [posOffset |-> p, xDelta |-> x, yDelta |-> y]

\* Tile-Yf with the step after two sub tiles going right instead of back and down
tyfTileWalkFlat ==
    [bytesPerPixel |-> 4,
     subTileWidth |-> 4, subTileHeight |-> 8,
     tileWidth |-> 32, tileHeight |-> 32,
     numDirChanges |-> 6,
     dirChanges |-> <<DC(8, 4, 0), DC(16, 4, 0), DC(32, 4, -8),
                      DC(64, -12, 8), DC(128, 4, -24), DC(256, 4, -24)>>]

tyfTileWalk ==
    [bytesPerPixel |-> 4,
     subTileWidth |-> 4, subTileHeight |-> 8,
     tileWidth |-> 32, tileHeight |-> 32,
     numDirChanges |-> 6,
     dirChanges |-> <<DC(8, 4, 0), DC(16, -4, 8), DC(32, 4, -8),
                      DC(64, -12, 8), DC(128, 4, -24), DC(256, 4, -24)>>]

txTileWalk ==
    [bytesPerPixel |-> 4,
     subTileWidth |-> 128, subTileHeight |-> 8,
     tileWidth |-> 128, tileHeight |-> 8,
     numDirChanges |-> 1,
     dirChanges |-> <<DC(8, 128, 0)>>]

tyTileWalk ==
    [bytesPerPixel |-> 4,
     subTileWidth |-> 4, subTileHeight |-> 32,
     tileWidth |-> 32, tileHeight |-> 32,
     numDirChanges |-> 2,
     dirChanges |-> <<DC(32, 4, 0), DC(256, 4, 0)>>]

\* Descriptor values that are not shipped, for a walker called with its own
\* descriptor: a 4x4 tile of 2x2 sub tiles, an 4x8 tile of 2x4 sub tiles
\* with 2 bytes per pixel, and an 8x4 tile that is its own sub tile with 1
\* byte per pixel.  Their ids continue after the layout ids.
twSubTile2x2 ==
    [bytesPerPixel |-> 4,
     subTileWidth |-> 2, subTileHeight |-> 2,
     tileWidth |-> 4, tileHeight |-> 4,
     numDirChanges |-> 3,
     dirChanges |-> <<DC(2, 2, 0), DC(4, -2, 2), DC(8, 2, -2)>>]

twSubTile2x4 ==
    [bytesPerPixel |-> 2,
     subTileWidth |-> 2, subTileHeight |-> 4,
     tileWidth |-> 4, tileHeight |-> 8,
     numDirChanges |-> 3,
     dirChanges |-> <<DC(4, 2, 0), DC(8, -2, 4), DC(16, 2, -4)>>]

twSubTile8x4 ==
    [bytesPerPixel |-> 1,
     subTileWidth |-> 8, subTileHeight |-> 4,
     tileWidth |-> 8, tileHeight |-> 4,
     numDirChanges |-> 1,
     dirChanges |-> <<DC(4, 8, 0)>>]

DescriptorLayouts ==
    {FF_FBTILE_UNKNOWN + 11, FF_FBTILE_UNKNOWN + 12, FF_FBTILE_UNKNOWN + 13}

\* the Tile-Yf settings of vf_fbdetile.c (yfBytesPerPixel .. yfChanges), as a
\* descriptor; its id continues after those above
yfSettings ==
    [bytesPerPixel |-> 4,
     subTileWidth |-> 4, subTileHeight |-> 8,
     tileWidth |-> 16, tileHeight |-> 16,
     numDirChanges |-> 3,
     dirChanges |-> <<DC(8, 4, 0), DC(16, -4, 8), DC(32, 4, -8)>>]

TYPE_INTELYF == FF_FBTILE_UNKNOWN + 21

\* the descriptor fbtile_conv passes to the walker for a tiled layout
TileWalkOf(layout) ==
    CASE layout = FF_FBTILE_INTEL_XGEN9 -> txTileWalk
      [] layout = FF_FBTILE_INTEL_YGEN9 -> tyTileWalk
      [] layout = FF_FBTILE_INTEL_YF -> tyfTileWalk
      [] layout = FF_FBTILE_UNKNOWN + 11 -> twSubTile2x2
      [] layout = FF_FBTILE_UNKNOWN + 12 -> twSubTile2x4
      [] layout = FF_FBTILE_UNKNOWN + 13 -> twSubTile8x4
      [] layout = TYPE_INTELYF -> yfSettings

TiledLayouts == {FF_FBTILE_INTEL_XGEN9, FF_FBTILE_INTEL_YGEN9, FF_FBTILE_INTEL_YF}

(***************************************************************************)
(* Byte buffers and memcpy.  A buffer of h lines of lineSize bytes is the  *)
(* tuple of its lines, each the tuple of its bytes; the byte at offset off *)
(* is byte off % lineSize of line off / lineSize, as in the contiguous     *)
(* allocation it stands for.                                               *)
(***************************************************************************)
BufLineSize(buf) == IF Len(buf) = 0 THEN 0 ELSE Len(buf[1])
BufSize(buf) == Len(buf) * BufLineSize(buf)

InBuf(buf, off, n) == off >= 0 /\ off + n <= BufSize(buf)

Min(a, b) == IF a < b THEN a ELSE b

\* memcpy(dst+d, src+s, n) with both ranges inside their buffers, done in
\* pieces that each lie within one line of dst and of src
RECURSIVE Memcpy(_, _, _, _, _)
Memcpy(dst, d, src, s, n) ==
    IF n <= 0 THEN dst
    ELSE LET dl == BufLineSize(dst)
             sl == BufLineSize(src)
             dc == d % dl
             sc == s % sl
             len == Min(n, Min(dl - dc, sl - sc))
             dline == dst[(d \div dl) + 1]
             sline == src[(s \div sl) + 1]
             piece == SubSeq(dline, 1, dc) \o SubSeq(sline, sc + 1, sc + len)
                        \o SubSeq(dline, dc + len + 1, dl)
         IN Memcpy([dst EXCEPT ![(d \div dl) + 1] = piece], d + len, src, s + len, n - len)

\* memcpy with a range outside its buffer, in a build where the process
\* survives: bytes of dst inside the buffer are overwritten, a read
\* outside src yields the byte g that happens to lie there
\* bytes from offset off up to the end of its line, or up to the
\* nearer end of the buffer when off lies outside it (at most n)
Span(buf, off, n) ==
    IF off < 0 THEN Min(n, 0 - off)
    ELSE IF off >= BufSize(buf) THEN n
    ELSE BufLineSize(buf) - (off % BufLineSize(buf))

RECURSIVE MemcpyClipped(_, _, _, _, _, _)
MemcpyClipped(dst, d, src, s, n, g) ==
    IF n <= 0 THEN dst
    ELSE LET len == Min(n, Min(Span(dst, d, n), Span(src, s, n)))
             dl == BufLineSize(dst)
             sl == BufLineSize(src)
             dc == d % dl
             dline == dst[(d \div dl) + 1]
             bytes == IF InBuf(src, s, len)
                      THEN SubSeq(src[(s \div sl) + 1], (s % sl) + 1, (s % sl) + len)
                      ELSE [i \in 1..len |-> g]
             put == IF InBuf(dst, d, len)
                    THEN [dst EXCEPT ![(d \div dl) + 1] =
                            SubSeq(dline, 1, dc) \o bytes \o SubSeq(dline, dc + len + 1, dl)]
                    ELSE dst
         IN MemcpyClipped(put, d + len, src, s + len, n - len, g)

\* The memory of a walker call: m = [lin, tld, oob], the linear and the
\* tiled buffer and whether any access so far fell outside a buffer.
\* One memcpy of subTileWidthBytes between them: toTld is the direction,
\* memcpy(tld+tldOff, lin+linOff, n) or memcpy(lin+linOff, tld+tldOff, n).
CopyRun(m, toTld, linOff, tldOff, n, g) ==
    LET ok == InBuf(m.lin, linOff, n) /\ InBuf(m.tld, tldOff, n) IN
    IF toTld
    THEN [m EXCEPT !.tld = IF ok THEN Memcpy(m.tld, tldOff, m.lin, linOff, n)
                           ELSE MemcpyClipped(m.tld, tldOff, m.lin, linOff, n, g),
                   !.oob = m.oob \/ ~ok]
    ELSE [m EXCEPT !.lin = IF ok THEN Memcpy(m.lin, linOff, m.tld, tldOff, n)
                           ELSE MemcpyClipped(m.lin, linOff, m.tld, tldOff, n, g),
                   !.oob = m.oob \/ ~ok]

(***************************************************************************)
(* Walker state: the locals of one walker call, plus bookkeeping that the  *)
(* code does not keep: iters (loop iterations run), nCopied (bytes         *)
(* copied), oob (an access fell outside a buffer), g (the byte read from   *)
(* beyond a buffer in this run, -1 while none was read).                   *)
(***************************************************************************)
IdleWalker ==
    [pc |-> "idle", ret |-> FBT_OK, tO |-> 0, lX |-> 0, lY |-> 0,
     cSTL |-> 0, nSTLines |-> 0, tOPrev |-> 0, cSTLPrev |-> 0,
     curTileInRow |-> 0, nTilesInARow |-> 0, parallel |-> 1, tH |-> 0,
     iters |-> 0, nCopied |-> 0, oob |-> FALSE, g |-> -1]

\* linear rows taken to be w*bytesPerPixel bytes apart
LinLineSizeTight(c) == c.w * TileWalkOf(c.layout).bytesPerPixel

\* lin/tld line size selection at the head of both walkers
LinLineSize(c) == IF c.op = FF_FBTILE_OPS_TILE THEN c.srcLineSize ELSE c.dstLineSize
TldLineSize(c) == IF c.op = FF_FBTILE_OPS_TILE THEN c.dstLineSize ELSE c.srcLineSize

\* for (i = numDirChanges-1; i >= 0; i--) if ((cSTL % dirChanges[i].posOffset) == 0) ... break;
\* the (1-based) index of the entry applied, 0 when no entry divides cSTL
RECURSIVE ScanDirChanges(_, _, _)
ScanDirChanges(tw, cSTL, i) ==
    IF i < 1 THEN 0
    ELSE IF cSTL % tw.dirChanges[i].posOffset = 0 THEN i
    ELSE ScanDirChanges(tw, cSTL, i - 1)

\* a scan from the first entry to the last instead
RECURSIVE ScanDirChangesForward(_, _, _)
ScanDirChangesForward(tw, cSTL, i) ==
    IF i > tw.numDirChanges THEN 0
    ELSE IF cSTL % tw.dirChanges[i].posOffset = 0 THEN i
    ELSE ScanDirChangesForward(tw, cSTL, i + 1)

DirChangeIndexForward(tw, cSTL) == ScanDirChangesForward(tw, cSTL, 1)

DirChangeIndex(tw, cSTL) == ScanDirChanges(tw, cSTL, tw.numDirChanges)

\* a memcpy of the walk is a pair <<linOff, tldOff>>; the memcpys of one
\* loop iteration are applied in program order, runs i up to the middle of
\* what is left and then the others
RECURSIVE CopyRuns(_, _, _, _, _, _)
CopyRuns(m, toTld, runs, i, n, g) ==
    IF i > Len(runs) THEN m
    ELSE IF i = Len(runs) THEN CopyRun(m, toTld, runs[i][1], runs[i][2], n, g)
    ELSE LET mid == (i + Len(runs)) \div 2
         IN CHOOSE r \in { CopyRuns(m2, toTld, runs, mid + 1, n, g) :
                             m2 \in { CopyRuns(m, toTld, first, i, n, g) :
                                        first \in { SubSeq(runs, 1, mid) } } } : TRUE

\* bookkeeping of one loop iteration that made the memcpys runs of n bytes
Counted(st, runs, n) ==
    [st EXCEPT !.iters = st.iters + 1, !.nCopied = st.nCopied + Len(runs) * n]

RunsInBufs(m, runs, n) ==
    \A i \in 1..Len(runs) : InBuf(m.lin, runs[i][1], n) /\ InBuf(m.tld, runs[i][2], n)

\* if (op == FF_FBTILE_OPS_TILE) { lin = src; tld = dst; } else { tld = src; lin = dst; }
LinIsSrc(op) == op = FF_FBTILE_OPS_TILE

Mem(op, src, dst) ==
    IF LinIsSrc(op) THEN [lin |-> src, tld |-> dst, oob |-> FALSE]
    ELSE [lin |-> dst, tld |-> src, oob |-> FALSE]
SrcOf(op, m) == IF LinIsSrc(op) THEN m.lin ELSE m.tld
DstOf(op, m) == IF LinIsSrc(op) THEN m.tld ELSE m.lin

(***************************************************************************)
(* _fbtile_generic_simple                                                  *)
(***************************************************************************)
\* entry: the line size check and the initialisation before the loop
\* the entry with the line size check only logging
SimpleEntryProceeds(c) ==
    [IdleWalker EXCEPT !.pc = "loop",
                       !.nSTLines = (c.w * c.h) \div TileWalkOf(c.layout).subTileWidth]

SimpleEntry(c) ==
    LET tw == TileWalkOf(c.layout) IN
    IF c.w * tw.bytesPerPixel # TldLineSize(c)
    THEN [IdleWalker EXCEPT !.pc = "done", !.ret = AVERROR_EINVAL]
    ELSE [IdleWalker EXCEPT !.pc = "loop",
                            !.nSTLines = (c.w * c.h) \div tw.subTileWidth]

\* the memcpy calls with the shipped layouts' 4 bytes per pixel in place of
\* the descriptor's bytesPerPixel
SimpleRunsFourBytes(c, st) ==
    LET tw == TileWalkOf(c.layout)
        subTileWidthBytes == tw.subTileWidth * 4
        lO == st.lY * LinLineSize(c) + st.lX * 4
    IN [i \in 1..tw.subTileHeight |->
            <<lO + (i - 1) * LinLineSize(c), st.tO + (i - 1) * subTileWidthBytes>>]

\* the memcpy calls of one loop iteration, in program order
SimpleRuns(c, st) ==
    LET tw == TileWalkOf(c.layout)
        subTileWidthBytes == tw.subTileWidth * tw.bytesPerPixel
        lO == st.lY * LinLineSize(c) + st.lX * tw.bytesPerPixel
    IN [i \in 1..tw.subTileHeight |->
            <<lO + (i - 1) * LinLineSize(c), st.tO + (i - 1) * subTileWidthBytes>>]

\* if (op == FF_FBTILE_OPS_TILE) memcpy(tld.., lin..) else memcpy(lin.., tld..)
SimpleToTld(op) == op = FF_FBTILE_OPS_TILE

\* the deltas summed over every entry from i down whose posOffset divides cSTL
RECURSIVE ScanDirChangesNoBreak(_, _, _)
ScanDirChangesNoBreak(tw, cSTL, i) ==
    IF i < 1 THEN <<0, 0>>
    ELSE LET rest == ScanDirChangesNoBreak(tw, cSTL, i - 1)
         IN IF cSTL % tw.dirChanges[i].posOffset = 0
            THEN <<rest[1] + tw.dirChanges[i].xDelta, rest[2] + tw.dirChanges[i].yDelta>>
            ELSE rest

\* the cursor update with the scan going on after an entry has matched
SimpleAdvanceNoBreak(c, st) ==
    LET tw == TileWalkOf(c.layout)
        subTileWidthBytes == tw.subTileWidth * tw.bytesPerPixel
        tO1 == st.tO + tw.subTileHeight * subTileWidthBytes
        cSTL1 == st.cSTL + tw.subTileHeight
        d == ScanDirChangesNoBreak(tw, cSTL1, tw.numDirChanges)
        lX1 == st.lX + d[1]
        lY1 == st.lY + d[2]
    IN [st EXCEPT !.tO = tO1, !.cSTL = cSTL1,
                  !.lX = IF lX1 >= c.w THEN 0 ELSE lX1,
                  !.lY = IF lX1 >= c.w THEN lY1 + tw.tileHeight ELSE lY1]

\* the cursor update that ends one loop iteration
SimpleAdvance(c, st) ==
    LET tw == TileWalkOf(c.layout)
        subTileWidthBytes == tw.subTileWidth * tw.bytesPerPixel
        tO1 == st.tO + tw.subTileHeight * subTileWidthBytes
        cSTL1 == st.cSTL + tw.subTileHeight
        i == DirChangeIndex(tw, cSTL1)
        lX1 == IF i = 0 THEN st.lX ELSE st.lX + tw.dirChanges[i].xDelta
        lY1 == IF i = 0 THEN st.lY ELSE st.lY + tw.dirChanges[i].yDelta
    IN [st EXCEPT !.tO = tO1, !.cSTL = cSTL1,
                  !.lX = IF lX1 >= c.w THEN 0 ELSE lX1,
                  !.lY = IF lX1 >= c.w THEN lY1 + tw.tileHeight ELSE lY1]

(***************************************************************************)
(* _fbtile_generic_opti                                                    *)
(***************************************************************************)
\* for (parallel=8; parallel>0; parallel--) if (nTilesInARow%parallel == 0) break;
RECURSIVE ScanParallel(_, _)
ScanParallel(nTilesInARow, parallel) ==
    IF parallel <= 0 THEN parallel
    ELSE IF nTilesInARow % parallel = 0 THEN parallel
    ELSE ScanParallel(nTilesInARow, parallel - 1)

\* a scan that tries 8, 4, 2 and 1 only
RECURSIVE ScanParallelHalving(_, _)
ScanParallelHalving(nTilesInARow, parallel) ==
    IF parallel <= 0 THEN parallel
    ELSE IF nTilesInARow % parallel = 0 THEN parallel
    ELSE ScanParallelHalving(nTilesInARow, parallel \div 2)

ParallelOfHalving(nTilesInARow) == ScanParallelHalving(nTilesInARow, 8)

ParallelOf(nTilesInARow) == ScanParallel(nTilesInARow, 8)

\* the height taken as it is
ClampHeightNone(h, tileHeight) == h

\* the height the walk covers: h limited to a multiple of tileHeight
ClampHeight(h, tileHeight) ==
    IF h % tileHeight # 0 THEN (h \div tileHeight) * tileHeight ELSE h

\* entry: the line size and width checks and the initialisation before the loop
\* the entry without the check of the width against tileWidth
OptiEntryAnyWidth(c) ==
    LET tw == TileWalkOf(c.layout)
        tH == ClampHeight(c.h, tw.tileHeight)
    IN IF c.w * tw.bytesPerPixel # TldLineSize(c)
       THEN [IdleWalker EXCEPT !.pc = "done", !.ret = AVERROR_EINVAL]
       ELSE [IdleWalker EXCEPT !.pc = "loop", !.tH = tH,
                               !.nTilesInARow = c.w \div tw.tileWidth,
                               !.parallel = ParallelOf(c.w \div tw.tileWidth),
                               !.nSTLines = (c.w * tH) \div tw.subTileWidth]

OptiEntry(c) ==
    LET tw == TileWalkOf(c.layout)
        tH == ClampHeight(c.h, tw.tileHeight)
    IN IF c.w * tw.bytesPerPixel # TldLineSize(c)
       THEN [IdleWalker EXCEPT !.pc = "done", !.ret = AVERROR_EINVAL]
       ELSE IF c.w % tw.tileWidth # 0
       THEN [IdleWalker EXCEPT !.pc = "done", !.ret = AVERROR_EINVAL]
       ELSE [IdleWalker EXCEPT !.pc = "loop", !.tH = tH,
                               !.nTilesInARow = c.w \div tw.tileWidth,
                               !.parallel = ParallelOf(c.w \div tw.tileWidth),
                               !.nSTLines = (c.w * tH) \div tw.subTileWidth]

\* number of rows the unrolled loop (k += 4, rows k+0 .. k+3) copies per sub tile
UnrolledRows(subTileHeight) == ((subTileHeight + 3) \div 4) * 4

\* the memcpy calls with pLinOffset counted in pixels instead of bytes
OptiRunsPixelOffset(c, st) ==
    LET tw == TileWalkOf(c.layout)
        subTileWidthBytes == tw.subTileWidth * tw.bytesPerPixel
        lO == st.lY * LinLineSize(c) + st.lX * tw.bytesPerPixel
        K(i) == (((i - 1) \div 4) \div st.parallel) * 4 + ((i - 1) % 4)
        P(i) == ((i - 1) \div 4) % st.parallel
        pTldOffset(i) == P(i) * tw.tileWidth * tw.tileHeight * tw.bytesPerPixel
        pLinOffset(i) == P(i) * tw.tileWidth
    IN [i \in 1..(UnrolledRows(tw.subTileHeight) * st.parallel) |->
            <<lO + K(i) * LinLineSize(c) + pLinOffset(i),
              st.tO + K(i) * subTileWidthBytes + pTldOffset(i)>>]

\* the memcpy calls of one loop iteration, in program order:
\* for k (step 4), for p < parallel, rows k+0, k+1, k+2, k+3
OptiRuns(c, st) ==
    LET tw == TileWalkOf(c.layout)
        subTileWidthBytes == tw.subTileWidth * tw.bytesPerPixel
        lO == st.lY * LinLineSize(c) + st.lX * tw.bytesPerPixel
        K(i) == (((i - 1) \div 4) \div st.parallel) * 4 + ((i - 1) % 4)
        P(i) == ((i - 1) \div 4) % st.parallel
        pTldOffset(i) == P(i) * tw.tileWidth * tw.tileHeight * tw.bytesPerPixel
        pLinOffset(i) == P(i) * tw.tileWidth * tw.bytesPerPixel
    IN [i \in 1..(UnrolledRows(tw.subTileHeight) * st.parallel) |->
            <<lO + K(i) * LinLineSize(c) + pLinOffset(i),
              st.tO + K(i) * subTileWidthBytes + pTldOffset(i)>>]

\* the loop for (k = 0; k < subTileHeight; k+=4) around the single memcpy of
\* row k+0
OptiRunsRolledByFour(c, st) ==
    LET tw == TileWalkOf(c.layout)
        subTileWidthBytes == tw.subTileWidth * tw.bytesPerPixel
        lO == st.lY * LinLineSize(c) + st.lX * tw.bytesPerPixel
        K(i) == ((i - 1) \div st.parallel) * 4
        P(i) == (i - 1) % st.parallel
        pTldOffset(i) == P(i) * tw.tileWidth * tw.tileHeight * tw.bytesPerPixel
        pLinOffset(i) == P(i) * tw.tileWidth * tw.bytesPerPixel
    IN [i \in 1..(((tw.subTileHeight + 3) \div 4) * st.parallel) |->
            <<lO + K(i) * LinLineSize(c) + pLinOffset(i),
              st.tO + K(i) * subTileWidthBytes + pTldOffset(i)>>]

\* the memcpy calls of one loop iteration of the build without
\* FBTILER_OPTI_UNROLL, in program order: for k (step 1), for p < parallel,
\* row k+0
OptiRunsRolled(c, st) ==
    LET tw == TileWalkOf(c.layout)
        subTileWidthBytes == tw.subTileWidth * tw.bytesPerPixel
        lO == st.lY * LinLineSize(c) + st.lX * tw.bytesPerPixel
        K(i) == (i - 1) \div st.parallel
        P(i) == (i - 1) % st.parallel
        pTldOffset(i) == P(i) * tw.tileWidth * tw.tileHeight * tw.bytesPerPixel
        pLinOffset(i) == P(i) * tw.tileWidth * tw.bytesPerPixel
    IN [i \in 1..(tw.subTileHeight * st.parallel) |->
            <<lO + K(i) * LinLineSize(c) + pLinOffset(i),
              st.tO + K(i) * subTileWidthBytes + pTldOffset(i)>>]

\* the copy direction with the roles of the two branches exchanged
OptiToTldInverted(op) == op = FF_FBTILE_OPS_DETILE

\* if (op == FF_FBTILE_OPS_DETILE) memcpy(lin.., tld..) else memcpy(tld.., lin..)
OptiToTld(op) == op # FF_FBTILE_OPS_DETILE

\* the advance with tO left running on at a tile boundary instead of being
\* re-based on tOPrev
OptiAdvanceNoRebase(c, st) ==
    LET tw == TileWalkOf(c.layout)
        subTileWidthBytes == tw.subTileWidth * tw.bytesPerPixel
        tO1 == st.tO + tw.subTileHeight * subTileWidthBytes
        cSTL1 == st.cSTL + tw.subTileHeight
        i == DirChangeIndex(tw, cSTL1)
        last == (i # 0 /\ i = tw.numDirChanges)
        cTIR2 == IF last THEN st.curTileInRow + st.parallel ELSE st.curTileInRow
        lX2 == IF last THEN cTIR2 * tw.tileWidth
               ELSE IF i # 0 THEN st.lX + tw.dirChanges[i].xDelta ELSE st.lX
        tO2 == tO1
        cSTL2 == IF last
                 THEN st.cSTLPrev
                      + ((tw.tileWidth * tw.tileHeight) \div (tw.subTileWidth * tw.subTileHeight))
                        * tw.subTileHeight * st.parallel
                 ELSE cSTL1
        lY2 == IF i # 0 THEN st.lY + tw.dirChanges[i].yDelta ELSE st.lY
        wrap == lX2 >= c.w
        lY3 == IF wrap THEN lY2 + tw.tileHeight ELSE lY2
    IN [st EXCEPT !.tO = tO2, !.cSTL = cSTL2,
                  !.tOPrev = IF last THEN tO2 ELSE st.tOPrev,
                  !.cSTLPrev = IF last THEN cSTL2 ELSE st.cSTLPrev,
                  !.curTileInRow = IF wrap THEN 0 ELSE cTIR2,
                  !.lX = IF wrap THEN 0 ELSE lX2,
                  !.lY = lY3,
                  !.pc = IF wrap /\ lY3 >= st.tH THEN "done" ELSE "loop"]

\* the cursor update that ends one loop iteration; pc becomes "done" on the
\* break taken when lY reaches the clamped height
OptiAdvance(c, st) ==
    LET tw == TileWalkOf(c.layout)
        subTileWidthBytes == tw.subTileWidth * tw.bytesPerPixel
        tO1 == st.tO + tw.subTileHeight * subTileWidthBytes
        cSTL1 == st.cSTL + tw.subTileHeight
        i == DirChangeIndex(tw, cSTL1)
        last == (i # 0 /\ i = tw.numDirChanges)
        cTIR2 == IF last THEN st.curTileInRow + st.parallel ELSE st.curTileInRow
        lX2 == IF last THEN cTIR2 * tw.tileWidth
               ELSE IF i # 0 THEN st.lX + tw.dirChanges[i].xDelta ELSE st.lX
        tO2 == IF last
               THEN st.tOPrev + tw.tileWidth * tw.tileHeight * tw.bytesPerPixel * st.parallel
               ELSE tO1
        cSTL2 == IF last
                 THEN st.cSTLPrev
                      + ((tw.tileWidth * tw.tileHeight) \div (tw.subTileWidth * tw.subTileHeight))
                        * tw.subTileHeight * st.parallel
                 ELSE cSTL1
        lY2 == IF i # 0 THEN st.lY + tw.dirChanges[i].yDelta ELSE st.lY
        wrap == lX2 >= c.w
        lY3 == IF wrap THEN lY2 + tw.tileHeight ELSE lY2
    IN [st EXCEPT !.tO = tO2, !.cSTL = cSTL2,
                  !.tOPrev = IF last THEN tO2 ELSE st.tOPrev,
                  !.cSTLPrev = IF last THEN cSTL2 ELSE st.cSTLPrev,
                  !.curTileInRow = IF wrap THEN 0 ELSE cTIR2,
                  !.lX = IF wrap THEN 0 ELSE lX2,
                  !.lY = lY3,
                  !.pc = IF wrap /\ lY3 >= st.tH THEN "done" ELSE "loop"]

\* the whole optimized walker as a function of its arguments and buffers,
\* for calls whose memcpys stay inside the buffers: the dst buffer it leaves
RECURSIVE OptiLoop(_, _, _)
OptiLoop(c, st, m) ==
    IF st.pc # "loop" \/ ~(st.cSTL < st.nSTLines) THEN m
    ELSE LET tw == TileWalkOf(c.layout)
             n == tw.subTileWidth * tw.bytesPerPixel
             runs == OptiRuns(c, st)
             st2 == OptiAdvance(c, Counted(st, runs, n))
             m2 == CopyRuns(m, OptiToTld(c.op), runs, 1, n, -1)
         IN IF st2.pc = "loop" /\ ~m2.oob THEN OptiLoop(c, st2, m2) ELSE m2

OptiRun(c, src, dst) == DstOf(c.op, OptiLoop(c, OptiEntry(c), Mem(c.op, src, dst)))

(***************************************************************************)
(* The calls made on the walkers.  A session runs the reference walker and *)
(* then the optimized walker on the same arguments and source content      *)
(* (phase 1); when both converted, it runs each walker again with the      *)
(* inverse operation on its own phase 1 output (phase 2), as the test of   *)
(* hkvc-run.sh tiles an image and detiles the result.                      *)
(***************************************************************************)
VARIABLES
    call,   \* arguments of the walker calls of this phase: op, layout, w, h, dstLineSize, srcLineSize
    fill,   \* content pattern of the phase 1 source buffer
    phase,  \* 1 or 2
    sim,    \* locals of _fbtile_generic_simple
    ssrc,   \* its src buffer
    sdst,   \* its dst buffer
    opt,    \* locals of _fbtile_generic_opti
    osrc,   \* its src buffer
    odst,   \* its dst buffer
    fc,     \* a call of ff_fbtile_frame_copy: its arguments, the two frames, *status and the return value
    gl,     \* a call of ff_fbtile_getlayoutid: its arguments and the return value
    cv,     \* the statics of fbtile.c and two callers of fbtile_conv running interleaved
    hd,     \* a call of hwdownload_filter_frame: the filter option, the input frame and the frames it makes
    tf      \* a call of filter_frame of vf_fbtiler.c: the options, the frames and what went downstream

vars == <<call, fill, phase, sim, ssrc, sdst, opt, osrc, odst, fc, gl, cv, hd, tf>>

\* no call of ff_fbtile_frame_copy or ff_fbtile_getlayoutid made or pending
NoFrameCopy == [pc |-> "none"]
NoGetLayoutId == [pc |-> "none"]
NoConv == [pc |-> "none"]
NoDownload == [pc |-> "none"]
NoFilter == [pc |-> "none"]

\* bounds of the image sizes explored: images of up to MaxTilesInARow by
\* MaxTileRows tiles, and one row of WideRowA and of WideRowB tiles (more
\* tiles in a row than the walker handles in parallel)
MaxTilesInARow == 3
MaxTileRows == 2
WideRowA == 9
WideRowB == 11

Fills == {"distinct", "zero", "ones"}

\* byte at offset i of a source buffer; "distinct" gives every byte the
\* value of its own offset, so that it identifies where a byte came from
FillByte(f, i) == CASE f = "distinct" -> i [] f = "zero" -> 0 [] f = "ones" -> 255

\* a source buffer of h lines of lineSize bytes
InitBuf(f, h, lineSize) ==
    [y \in 1..h |-> [x \in 1..lineSize |-> FillByte(f, (y - 1) * lineSize + (x - 1))]]

\* a destination buffer no call has written yet: every byte holds -1
FreshBuf(h, lineSize) == [y \in 1..h |-> [x \in 1..lineSize |-> -1]]

\* the arguments of a call from the image geometry: the tiled side has
\* line size tldLineSize and the linear side linLineSize
Call(op, layout, w, h, linLineSize, tldLineSize) ==
    [op |-> op, layout |-> layout, w |-> w, h |-> h,
     dstLineSize |-> IF LinIsSrc(op) THEN tldLineSize ELSE linLineSize,
     srcLineSize |-> IF LinIsSrc(op) THEN linLineSize ELSE tldLineSize]

Ops == {FF_FBTILE_OPS_TILE, FF_FBTILE_OPS_DETILE}

\* a call on a w x h image whose linear and tiled line sizes exceed
\* w*bytesPerPixel by linPad and tldPad bytes
Image(op, l, w, h, linPad, tldPad) ==
    Call(op, l, w, h, w * TileWalkOf(l).bytesPerPixel + linPad,
                      w * TileWalkOf(l).bytesPerPixel + tldPad)

\* whole tiles, tight tiled side, linear side tight or padded
AlignedCalls ==
    { Image(op, l, n * TileWalkOf(l).tileWidth, m * TileWalkOf(l).tileHeight, 0, 0) :
        op \in Ops, l \in TiledLayouts, n \in 1..MaxTilesInARow, m \in 1..MaxTileRows }
    \cup
    { Image(op, l, TileWalkOf(l).tileWidth, TileWalkOf(l).tileHeight, 12, 0) :
        op \in Ops, l \in TiledLayouts }
    \cup
    { Image(FF_FBTILE_OPS_TILE, l, WideRowA * TileWalkOf(l).tileWidth, TileWalkOf(l).tileHeight, 0, 0) :
        l \in TiledLayouts }
    \cup
    { Image(FF_FBTILE_OPS_TILE, l, WideRowB * TileWalkOf(l).tileWidth, TileWalkOf(l).tileHeight, 0, 0) :
        l \in {FF_FBTILE_INTEL_XGEN9, FF_FBTILE_INTEL_YGEN9} }

\* height not a multiple of tileHeight
HeightRemainderCalls ==
    UNION { { Image(op, l, n * TileWalkOf(l).tileWidth, m * TileWalkOf(l).tileHeight + r, 0, 0) :
                op \in Ops, n \in 1..2, m \in 0..1, r \in {1, TileWalkOf(l).tileHeight - 1} } :
            l \in TiledLayouts }

\* width not a multiple of tileWidth
WidthRemainderCalls ==
    UNION { { Image(op, l, w, m * TileWalkOf(l).tileHeight, 0, 0) :
                op \in Ops, m \in 1..2,
                w \in {TileWalkOf(l).tileWidth \div 2, TileWalkOf(l).tileWidth + 4} } :
            l \in TiledLayouts }
    \cup
    { Image(op, l, 100, 32, 0, 0) : op \in Ops, l \in TiledLayouts }

\* tiled side line size not equal to w*bytesPerPixel
PitchCalls ==
    { Image(op, l, TileWalkOf(l).tileWidth, TileWalkOf(l).tileHeight, 0, pad) :
        op \in Ops, l \in TiledLayouts, pad \in {4, 64} }

\* the op values of enum FFFBTileOps that name no conversion
OtherOpCalls ==
    { Image(op, l, TileWalkOf(l).tileWidth, TileWalkOf(l).tileHeight, 0, 0) :
        op \in {FF_FBTILE_OPS_NONE, FF_FBTILE_OPS_UNKNOWN}, l \in TiledLayouts }

SmallCall(c) ==
    /\ c.w = TileWalkOf(c.layout).tileWidth
    /\ c.h = TileWalkOf(c.layout).tileHeight
    /\ c.dstLineSize = c.srcLineSize

Init ==
    /\ call \in AlignedCalls \cup HeightRemainderCalls \cup WidthRemainderCalls
                \cup PitchCalls \cup OtherOpCalls
    /\ fill \in Fills
    /\ fill # "distinct" => SmallCall(call) /\ call.op \in Ops
    /\ phase = 1
    /\ sim = IdleWalker
    /\ opt = IdleWalker
    /\ ssrc = InitBuf(fill, call.h, call.srcLineSize)
    /\ osrc = ssrc
    /\ sdst = FreshBuf(call.h, call.dstLineSize)
    /\ odst = sdst
    /\ fc = NoFrameCopy
    /\ gl = NoGetLayoutId
    /\ cv = NoConv
    /\ hd = NoDownload
    /\ tf = NoFilter

\* the result of one loop iteration on the walker locals st and memory m:
\* all memcpys done and the cursor advanced to adv; when a memcpy reaches
\* outside a buffer the behaviour is undefined: the process dies, or it
\* goes on with what the bytes beyond the buffer happen to be
Crashed(st) == [st EXCEPT !.pc = "crashed", !.oob = TRUE]
Garbage(st) == IF st.g = -1 THEN {0, 255} ELSE {st.g}

\* one loop iteration under the loop condition cSTL <= nSTLines
SimpleStepInclusive ==
    /\ sim.pc = "loop"
    /\ sim.cSTL <= sim.nSTLines
    /\ LET tw == TileWalkOf(call.layout)
           n == tw.subTileWidth * tw.bytesPerPixel
           m == Mem(call.op, ssrc, sdst)
           toTld == SimpleToTld(call.op)
       IN \E runs \in { SimpleRuns(call, sim) } :
          \E adv \in { SimpleAdvance(call, Counted(sim, runs, n)) } :
          IF RunsInBufs(m, runs, n)
          THEN \E m2 \in { CopyRuns(m, toTld, runs, 1, n, sim.g) } :
               /\ sim' = adv
               /\ ssrc' = SrcOf(call.op, m2)
               /\ sdst' = DstOf(call.op, m2)
          ELSE \/ /\ sim' = Crashed(sim)
                  /\ UNCHANGED <<ssrc, sdst>>
               \/ \E g \in Garbage(sim) :
                  \E m2 \in { CopyRuns(m, toTld, runs, 1, n, g) } :
                    /\ sim' = [adv EXCEPT !.oob = TRUE, !.g = g]
                    /\ ssrc' = SrcOf(call.op, m2)
                    /\ sdst' = DstOf(call.op, m2)
    /\ UNCHANGED <<call, fill, phase, opt, osrc, odst, fc, gl, cv, hd, tf>>

\* one loop iteration of the reference walker: while (cSTL < nSTLines) holds
SimpleStep ==
    /\ sim.pc = "loop"
    /\ sim.cSTL < sim.nSTLines
    /\ LET tw == TileWalkOf(call.layout)
           n == tw.subTileWidth * tw.bytesPerPixel
           m == Mem(call.op, ssrc, sdst)
           toTld == SimpleToTld(call.op)
       IN \E runs \in { SimpleRuns(call, sim) } :
          \E adv \in { SimpleAdvance(call, Counted(sim, runs, n)) } :
          IF RunsInBufs(m, runs, n)
          THEN \E m2 \in { CopyRuns(m, toTld, runs, 1, n, sim.g) } :
               /\ sim' = adv
               /\ ssrc' = SrcOf(call.op, m2)
               /\ sdst' = DstOf(call.op, m2)
          ELSE \/ /\ sim' = Crashed(sim)
                  /\ UNCHANGED <<ssrc, sdst>>
               \/ \E g \in Garbage(sim) :
                  \E m2 \in { CopyRuns(m, toTld, runs, 1, n, g) } :
                    /\ sim' = [adv EXCEPT !.oob = TRUE, !.g = g]
                    /\ ssrc' = SrcOf(call.op, m2)
                    /\ sdst' = DstOf(call.op, m2)
    /\ UNCHANGED <<call, fill, phase, opt, osrc, odst, fc, gl, cv, hd, tf>>

SimpleCall ==
    /\ sim.pc = "idle"
    /\ sim' = SimpleEntry(call)
    /\ UNCHANGED <<call, fill, phase, ssrc, sdst, opt, osrc, odst, fc, gl, cv, hd, tf>>

\* while (cSTL < nSTLines) fails: return FBT_OK
SimpleReturn ==
    /\ sim.pc = "loop"
    /\ ~(sim.cSTL < sim.nSTLines)
    /\ sim' = [sim EXCEPT !.pc = "done", !.ret = FBT_OK]
    /\ UNCHANGED <<call, fill, phase, ssrc, sdst, opt, osrc, odst, fc, gl, cv, hd, tf>>

Finished(st) == st.pc \in {"done", "crashed"}

OptiCall ==
    /\ Finished(sim)
    /\ opt.pc = "idle"
    /\ opt' = OptiEntry(call)
    /\ UNCHANGED <<call, fill, phase, sim, ssrc, sdst, osrc, odst, fc, gl, cv, hd, tf>>

OptiStep ==
    /\ opt.pc = "loop"
    /\ opt.cSTL < opt.nSTLines
    /\ LET tw == TileWalkOf(call.layout)
           n == tw.subTileWidth * tw.bytesPerPixel
           m == Mem(call.op, osrc, odst)
           toTld == OptiToTld(call.op)
       IN \E runs \in { OptiRuns(call, opt) } :
          \E adv \in { OptiAdvance(call, Counted(opt, runs, n)) } :
          IF RunsInBufs(m, runs, n)
          THEN \E m2 \in { CopyRuns(m, toTld, runs, 1, n, opt.g) } :
               /\ opt' = adv
               /\ osrc' = SrcOf(call.op, m2)
               /\ odst' = DstOf(call.op, m2)
          ELSE \/ /\ opt' = Crashed(opt)
                  /\ UNCHANGED <<osrc, odst>>
               \/ \E g \in Garbage(opt) :
                  \E m2 \in { CopyRuns(m, toTld, runs, 1, n, g) } :
                    /\ opt' = [adv EXCEPT !.oob = TRUE, !.g = g]
                    /\ osrc' = SrcOf(call.op, m2)
                    /\ odst' = DstOf(call.op, m2)
    /\ UNCHANGED <<call, fill, phase, sim, ssrc, sdst, fc, gl, cv, hd, tf>>

OptiReturn ==
    /\ opt.pc = "loop"
    /\ ~(opt.cSTL < opt.nSTLines)
    /\ opt' = [opt EXCEPT !.pc = "done", !.ret = FBT_OK]
    /\ UNCHANGED <<call, fill, phase, sim, ssrc, sdst, osrc, odst, fc, gl, cv, hd, tf>>

InverseOp(op) == IF op = FF_FBTILE_OPS_TILE THEN FF_FBTILE_OPS_DETILE ELSE FF_FBTILE_OPS_TILE

Converted(st) == st.pc = "done" /\ st.ret = FBT_OK /\ ~st.oob

\* the second call of the session: the inverse operation on the output
InverseCall ==
    /\ phase = 1
    /\ call.op \in Ops
    /\ Converted(sim)
    /\ Converted(opt)
    /\ phase' = 2
    /\ call' = [call EXCEPT !.op = InverseOp(call.op),
                            !.dstLineSize = call.srcLineSize,
                            !.srcLineSize = call.dstLineSize]
    /\ sim' = IdleWalker
    /\ opt' = IdleWalker
    /\ ssrc' = sdst
    /\ osrc' = odst
    /\ sdst' = FreshBuf(call.h, call.srcLineSize)
    /\ odst' = FreshBuf(call.h, call.srcLineSize)
    /\ UNCHANGED <<fill, fc, gl, cv, hd, tf>>

Next ==
    \/ SimpleCall
    \/ SimpleStep
    \/ SimpleReturn
    \/ OptiCall
    \/ OptiStep
    \/ OptiReturn
    \/ InverseCall

Spec == Init /\ [][Next]_vars

(***************************************************************************)
(* The walkers called with descriptors that are not shipped.               *)
(***************************************************************************)
DescriptorCalls ==
    { Image(op, l, n * TileWalkOf(l).tileWidth, m * TileWalkOf(l).tileHeight, 0, 0) :
        op \in Ops, l \in DescriptorLayouts, n \in 1..MaxTilesInARow, m \in 0..MaxTileRows }

InitDescriptor ==
    /\ call \in DescriptorCalls
    /\ fill \in Fills
    /\ fill # "distinct" => SmallCall(call)
    /\ phase = 1
    /\ sim = IdleWalker
    /\ opt = IdleWalker
    /\ ssrc = InitBuf(fill, call.h, call.srcLineSize)
    /\ osrc = ssrc
    /\ sdst = FreshBuf(call.h, call.dstLineSize)
    /\ odst = sdst
    /\ fc = NoFrameCopy
    /\ gl = NoGetLayoutId
    /\ cv = NoConv
    /\ hd = NoDownload
    /\ tf = NoFilter

\* the inverse operation on both outputs when only the reference walker
\* converted
InverseCallReference ==
    /\ phase = 1
    /\ call.op \in Ops
    /\ Converted(sim)
    /\ Finished(opt)
    /\ ~Converted(opt)
    /\ phase' = 2
    /\ call' = [call EXCEPT !.op = InverseOp(call.op),
                            !.dstLineSize = call.srcLineSize,
                            !.srcLineSize = call.dstLineSize]
    /\ sim' = IdleWalker
    /\ opt' = IdleWalker
    /\ ssrc' = sdst
    /\ osrc' = odst
    /\ sdst' = FreshBuf(call.h, call.srcLineSize)
    /\ odst' = FreshBuf(call.h, call.srcLineSize)
    /\ UNCHANGED <<fill, fc, gl, cv, hd, tf>>

NextDescriptor ==
    \/ Next
    \/ InverseCallReference

SpecDescriptor == InitDescriptor /\ [][NextDescriptor]_vars

(***************************************************************************)
(* The entry of the optimized walker on images of 1 to MaxParallelTiles    *)
(* tiles in a row: the parallel factor it chooses.                         *)
(***************************************************************************)
MaxParallelTiles == 40

InitParallel ==
    /\ \E l \in TiledLayouts, n \in 1..MaxParallelTiles :
         call = Image(FF_FBTILE_OPS_DETILE, l, n * TileWalkOf(l).tileWidth,
                      TileWalkOf(l).tileHeight, 0, 0)
    /\ fill = "distinct"
    /\ phase = 0
    /\ sim = IdleWalker
    /\ opt = IdleWalker
    /\ ssrc = <<>>
    /\ sdst = <<>>
    /\ osrc = <<>>
    /\ odst = <<>>
    /\ fc = NoFrameCopy
    /\ gl = NoGetLayoutId
    /\ cv = NoConv
    /\ hd = NoDownload
    /\ tf = NoFilter

\* the checks and the initialisation up to the head of the loop
OptiEnter ==
    /\ opt.pc = "idle"
    /\ opt' = OptiEntry(call)
    /\ UNCHANGED <<call, fill, phase, sim, ssrc, sdst, osrc, odst, fc, gl, cv, hd, tf>>

NextParallel == OptiEnter

SpecParallel == InitParallel /\ [][NextParallel]_vars

(***************************************************************************)
(* detile_generic of vf_fbdetile.c, called by filter_frame with the yf     *)
(* settings on a frame of 1 to MaxFbdetileTiles tiles in a row and 1 to    *)
(* MaxFbdetileRows tile rows, or half a tile either way.  The locals are   *)
(* kept in opt (sO as tO, dX, dY as lX, lY, cSTR as cSTL) and the frames   *)
(* in osrc and odst.                                                       *)
(***************************************************************************)
MaxFbdetileTiles == 4
MaxFbdetileRows == 2

FbdetileCalls ==
    { Image(FF_FBTILE_OPS_DETILE, TYPE_INTELYF, w, h, 0, 0) :
        w \in { n * yfSettings.tileWidth : n \in 1..MaxFbdetileTiles }
                \cup { yfSettings.tileWidth \div 2 },
        h \in { m * yfSettings.tileHeight : m \in 1..MaxFbdetileRows }
                \cup { yfSettings.tileHeight \div 2 } }

InitFbdetile ==
    /\ call \in FbdetileCalls
    /\ fill = "distinct"
    /\ phase = 0
    /\ sim = IdleWalker
    /\ opt = IdleWalker
    /\ ssrc = <<>>
    /\ sdst = <<>>
    /\ osrc = InitBuf(fill, call.h, call.srcLineSize)
    /\ odst = FreshBuf(call.h, call.dstLineSize)
    /\ fc = NoFrameCopy
    /\ gl = NoGetLayoutId
    /\ cv = NoConv
    /\ hd = NoDownload
    /\ tf = NoFilter

\* if (nTilesInARow%4 == 0) parallel=4; else if (nTilesInARow%2 == 0) parallel=2; else parallel=1;
FbdetileParallel(nTilesInARow) ==
    IF nTilesInARow % 4 = 0 THEN 4 ELSE IF nTilesInARow % 2 = 0 THEN 2 ELSE 1

\* the two checks only print; the locals before the loop
detile_genericEntry(c) ==
    LET tw == TileWalkOf(c.layout)
    IN [IdleWalker EXCEPT !.pc = "loop", !.tH = c.h,
                          !.nTilesInARow = c.w \div tw.tileWidth,
                          !.parallel = FbdetileParallel(c.w \div tw.tileWidth),
                          !.nSTLines = (c.w * c.h) \div tw.subTileWidth]

\* the cursor update that ends one loop iteration of detile_generic; pc
\* becomes "done" on the break taken when dY reaches h
detile_genericAdvance(c, st) ==
    LET tw == TileWalkOf(c.layout)
        sO1 == st.tO + tw.subTileHeight * tw.subTileWidth * tw.bytesPerPixel
        cSTR1 == st.cSTL + tw.subTileHeight
        i == DirChangeIndex(tw, cSTR1)
        last == (i # 0 /\ i = tw.numDirChanges)
        cTIR2 == IF last THEN st.curTileInRow + st.parallel ELSE st.curTileInRow
        dX2 == IF last THEN cTIR2 * tw.tileWidth
               ELSE IF i # 0 THEN st.lX + tw.dirChanges[i].xDelta ELSE st.lX
        sO2 == IF last
               THEN st.tOPrev + tw.tileWidth * tw.tileHeight * tw.bytesPerPixel * st.parallel
               ELSE sO1
        dY2 == IF i # 0 THEN st.lY + tw.dirChanges[i].yDelta ELSE st.lY
        wrap == dX2 >= c.w
        dY3 == IF wrap THEN dY2 + tw.tileHeight ELSE dY2
    IN [st EXCEPT !.tO = sO2, !.cSTL = cSTR1,
                  !.tOPrev = IF last THEN sO2 ELSE st.tOPrev,
                  !.curTileInRow = IF wrap THEN 0 ELSE cTIR2,
                  !.lX = IF wrap THEN 0 ELSE dX2,
                  !.lY = dY3,
                  !.pc = IF wrap /\ dY3 >= c.h THEN "done" ELSE "loop"]

FbdetileCall ==
    /\ opt.pc = "idle"
    /\ opt' = detile_genericEntry(call)
    /\ UNCHANGED <<call, fill, phase, sim, ssrc, sdst, osrc, odst, fc, gl, cv, hd, tf>>

\* one loop iteration: the unrolled memcpys of parallel sub tiles, then the
\* cursor update
FbdetileStep ==
    /\ opt.pc = "loop"
    /\ opt.cSTL < opt.nSTLines
    /\ LET tw == TileWalkOf(call.layout)
           n == tw.subTileWidth * tw.bytesPerPixel
           m == Mem(call.op, osrc, odst)
       IN \E runs \in { OptiRuns(call, opt) } :
          \E adv \in { detile_genericAdvance(call, Counted(opt, runs, n)) } :
          IF RunsInBufs(m, runs, n)
          THEN \E m2 \in { CopyRuns(m, FALSE, runs, 1, n, opt.g) } :
               /\ opt' = adv
               /\ osrc' = SrcOf(call.op, m2)
               /\ odst' = DstOf(call.op, m2)
          ELSE \/ /\ opt' = Crashed(opt)
                  /\ UNCHANGED <<osrc, odst>>
               \/ \E g \in Garbage(opt) :
                  \E m2 \in { CopyRuns(m, FALSE, runs, 1, n, g) } :
                    /\ opt' = [adv EXCEPT !.oob = TRUE, !.g = g]
                    /\ osrc' = SrcOf(call.op, m2)
                    /\ odst' = DstOf(call.op, m2)
    /\ UNCHANGED <<call, fill, phase, sim, ssrc, sdst, fc, gl, cv, hd, tf>>

\* while (cSTR < nSTRows) fails
FbdetileReturn ==
    /\ opt.pc = "loop"
    /\ ~(opt.cSTL < opt.nSTLines)
    /\ opt' = [opt EXCEPT !.pc = "done", !.ret = FBT_OK]
    /\ UNCHANGED <<call, fill, phase, sim, ssrc, sdst, osrc, odst, fc, gl, cv, hd, tf>>

NextFbdetile ==
    \/ FbdetileCall
    \/ FbdetileStep
    \/ FbdetileReturn

SpecFbdetile == InitFbdetile /\ [][NextFbdetile]_vars

(***************************************************************************)
(* Both walkers run to their end, one after the other, on images of any    *)
(* width and height: 0 to MaxTerminationTiles tiles or half a tile wide, 0 *)
(* to MaxTerminationRows tile rows or a single line high.  The thread of   *)
(* the caller goes on from one statement to the next, so a step that can   *)
(* be taken is taken.                                                      *)
(***************************************************************************)
MaxTerminationTiles == 2
MaxTerminationRows == 2

TerminationCalls ==
    UNION { { Image(op, l, w, h, 0, 0) :
                op \in Ops,
                w \in { n * TileWalkOf(l).tileWidth : n \in 0..MaxTerminationTiles }
                        \cup { TileWalkOf(l).tileWidth \div 2 },
                h \in { m * TileWalkOf(l).tileHeight : m \in 0..MaxTerminationRows }
                        \cup { 1 } } :
            l \in TiledLayouts }
    \cup
    { Image(op, l, TileWalkOf(l).tileWidth, TileWalkOf(l).tileHeight, 0, 4) :
        op \in Ops, l \in TiledLayouts }

InitTermination ==
    /\ call \in TerminationCalls
    /\ fill = "zero"
    /\ phase = 0
    /\ sim = IdleWalker
    /\ opt = IdleWalker
    /\ ssrc = InitBuf(fill, call.h, call.srcLineSize)
    /\ osrc = ssrc
    /\ sdst = FreshBuf(call.h, call.dstLineSize)
    /\ odst = sdst
    /\ fc = NoFrameCopy
    /\ gl = NoGetLayoutId
    /\ cv = NoConv
    /\ hd = NoDownload
    /\ tf = NoFilter

NextTermination ==
    \/ SimpleCall
    \/ SimpleStep
    \/ SimpleReturn
    \/ OptiCall
    \/ OptiStep
    \/ OptiReturn

SpecTermination == InitTermination /\ [][NextTermination]_vars /\ WF_vars(NextTermination)

(***************************************************************************)
(* ff_fbtile_getlayoutid.  A DRM format modifier is a 64 bit value with    *)
(* the vendor in its top 8 bits and the vendor's code in the low 56 bits;  *)
(* it is kept as the pair <<vendor, code>>.                                *)
(***************************************************************************)
DRM_FORMAT_MOD_LINEAR == <<0, 0>>
I915_FORMAT_MOD_X_TILED == <<1, 1>>
I915_FORMAT_MOD_Y_TILED == <<1, 2>>
I915_FORMAT_MOD_Yf_TILED == <<1, 3>>

\* the mapping with the cases of the Y and the Yf modifier exchanged
ff_fbtile_getlayoutidSwapped(configLibdrm, family, familyTileType) ==
    IF family = FF_FBTILE_FAMILY_DRM /\ configLibdrm
    THEN CASE familyTileType = DRM_FORMAT_MOD_LINEAR -> FF_FBTILE_NONE
           [] familyTileType = I915_FORMAT_MOD_X_TILED -> FF_FBTILE_INTEL_XGEN9
           [] familyTileType = I915_FORMAT_MOD_Y_TILED -> FF_FBTILE_INTEL_YF
           [] familyTileType = I915_FORMAT_MOD_Yf_TILED -> FF_FBTILE_INTEL_YGEN9
           [] OTHER -> FF_FBTILE_UNKNOWN
    ELSE FF_FBTILE_UNKNOWN

\* layout starts as FF_FBTILE_UNKNOWN; only the DRM family in a build with
\* CONFIG_LIBDRM assigns it
ff_fbtile_getlayoutid(configLibdrm, family, familyTileType) ==
    IF family = FF_FBTILE_FAMILY_DRM
    THEN IF configLibdrm
         THEN CASE familyTileType = DRM_FORMAT_MOD_LINEAR -> FF_FBTILE_NONE
                [] familyTileType = I915_FORMAT_MOD_X_TILED -> FF_FBTILE_INTEL_XGEN9
                [] familyTileType = I915_FORMAT_MOD_Y_TILED -> FF_FBTILE_INTEL_YGEN9
                [] familyTileType = I915_FORMAT_MOD_Yf_TILED -> FF_FBTILE_INTEL_YF
                [] OTHER -> FF_FBTILE_UNKNOWN
         ELSE FF_FBTILE_UNKNOWN
    ELSE FF_FBTILE_UNKNOWN

\* bounds of the arguments explored: family values 0..MaxFamily, modifier
\* vendors 0..MaxVendor and vendor codes 0..MaxCode
MaxFamily == 2
MaxVendor == 2
MaxCode == 5

InitLayout ==
    /\ gl \in [pc : {"idle"}, configLibdrm : BOOLEAN, family : 0..MaxFamily,
               familyTileType : (0..MaxVendor) \X (0..MaxCode),
               layout : {FF_FBTILE_UNKNOWN}]
    /\ fc = NoFrameCopy
    /\ cv = NoConv
    /\ hd = NoDownload
    /\ tf = NoFilter
    /\ call = Image(FF_FBTILE_OPS_NONE, FF_FBTILE_INTEL_XGEN9, 0, 0, 0, 0)
    /\ fill = "zero"
    /\ phase = 0
    /\ sim = IdleWalker
    /\ opt = IdleWalker
    /\ ssrc = <<>>
    /\ sdst = <<>>
    /\ osrc = <<>>
    /\ odst = <<>>

GetLayoutId ==
    /\ gl.pc = "idle"
    /\ gl' = [gl EXCEPT !.pc = "done",
                        !.layout = ff_fbtile_getlayoutid(gl.configLibdrm, gl.family,
                                                         gl.familyTileType)]
    /\ UNCHANGED <<call, fill, phase, sim, ssrc, sdst, opt, osrc, odst, fc, cv, hd, tf>>

NextLayout == GetLayoutId

SpecLayout == InitLayout /\ [][NextLayout]_vars

(***************************************************************************)
(* ff_fbtile_frame_copy and what it calls.  A frame is its format, width,  *)
(* height, linesize[0] and the bytes of data[0] (height lines of linesize  *)
(* bytes).                                                                 *)
(***************************************************************************)
\* the entries of fbtilePixFormats before the terminating AV_PIX_FMT_NONE
fbtilePixFormats ==
    <<"AV_PIX_FMT_RGB0", "AV_PIX_FMT_0RGB", "AV_PIX_FMT_BGR0", "AV_PIX_FMT_0BGR",
      "AV_PIX_FMT_RGBA", "AV_PIX_FMT_ARGB", "AV_PIX_FMT_BGRA", "AV_PIX_FMT_ABGR">>

\* the check with the two error flags combined by & instead of |
ff_fbtile_checkpixformatsBoth(srcPixFormat, dstPixFormat) ==
    LET errSrc == IF \E i \in DOMAIN fbtilePixFormats : fbtilePixFormats[i] = srcPixFormat
                  THEN 0 ELSE 1
        errDst == IF \E i \in DOMAIN fbtilePixFormats : fbtilePixFormats[i] = dstPixFormat
                  THEN 0 ELSE 1
    IN IF errSrc = 1 /\ errDst = 1 THEN 1 ELSE 0

\* the check looking at the source format only
ff_fbtile_checkpixformatsSrcOnly(srcPixFormat, dstPixFormat) ==
    IF \E i \in DOMAIN fbtilePixFormats : fbtilePixFormats[i] = srcPixFormat THEN 0 ELSE 1

\* return (errSrc | errDst)
ff_fbtile_checkpixformats(srcPixFormat, dstPixFormat) ==
    LET errSrc == IF \E i \in DOMAIN fbtilePixFormats : fbtilePixFormats[i] = srcPixFormat
                  THEN 0 ELSE 1
        errDst == IF \E i \in DOMAIN fbtilePixFormats : fbtilePixFormats[i] = dstPixFormat
                  THEN 0 ELSE 1
    IN IF errSrc = 1 \/ errDst = 1 THEN 1 ELSE 0

\* what a call of the optimized walker that entered with locals st and
\* ended with memory m gives: its return value, the two buffers as it
\* leaves them, whether its loop was reached and whether a memcpy fell
\* outside a buffer
OptiOutcome(c, st, m) ==
    [ret |-> IF st.pc = "done" THEN st.ret ELSE FBT_OK,
     dst |-> DstOf(c.op, m), src |-> SrcOf(c.op, m),
     walked |-> st.pc = "loop", oob |-> m.oob]

OptiFrom(c, st, src, dst) == OptiOutcome(c, st, OptiLoop(c, st, Mem(c.op, src, dst)))

\* one whole call of the optimized walker
fbtile_generic_opti(c, src, dst) == OptiFrom(c, OptiEntry(c), src, dst)

\* the dispatcher refusing a bytesPerPixel that is not the descriptor's
fbtile_convChecked(op, layout, w, h, dst, dstLineSize, src, srcLineSize, bytesPerPixel) ==
    CASE layout = FF_FBTILE_NONE ->
           [ret |-> AVERROR_EALREADY, dst |-> dst, src |-> src, walked |-> FALSE, oob |-> FALSE]
      [] layout \in TiledLayouts /\ bytesPerPixel = TileWalkOf(layout).bytesPerPixel ->
           fbtile_generic_opti([op |-> op, layout |-> layout, w |-> w, h |-> h,
                                dstLineSize |-> dstLineSize, srcLineSize |-> srcLineSize],
                               src, dst)
      [] OTHER ->
           [ret |-> AVERROR_EINVAL, dst |-> dst, src |-> src, walked |-> FALSE, oob |-> FALSE]

\* switch(layout); the argument bytesPerPixel is not used: the walker gets
\* tw->bytesPerPixel from the descriptor
fbtile_conv(op, layout, w, h, dst, dstLineSize, src, srcLineSize, bytesPerPixel) ==
    CASE layout = FF_FBTILE_NONE ->
           [ret |-> AVERROR_EALREADY, dst |-> dst, src |-> src, walked |-> FALSE, oob |-> FALSE]
      [] layout \in TiledLayouts ->
           fbtile_generic_opti([op |-> op, layout |-> layout, w |-> w, h |-> h,
                                dstLineSize |-> dstLineSize, srcLineSize |-> srcLineSize],
                               src, dst)
      [] OTHER ->
           [ret |-> AVERROR_EINVAL, dst |-> dst, src |-> src, walked |-> FALSE, oob |-> FALSE]

\* av_frame_copy: the bytes of the source lines copied over the
\* destination lines, line by line up to the shorter line size; returns 0
av_frame_copy(dst, src) ==
    LET n == Min(dst.linesize, src.linesize) IN
    [ret |-> 0,
     data |-> [y \in 1..Len(dst.data) |->
                 IF y <= Len(src.data)
                 THEN SubSeq(src.data[y], 1, n) \o SubSeq(dst.data[y], n + 1, dst.linesize)
                 ELSE dst.data[y]]]

\* the branches with the two operations exchanged
FrameCopyOpExchanged(dstTileLayout, srcTileLayout) ==
    IF dstTileLayout = FF_FBTILE_NONE THEN FF_FBTILE_OPS_TILE
    ELSE IF srcTileLayout = FF_FBTILE_NONE THEN FF_FBTILE_OPS_DETILE
    ELSE FF_FBTILE_OPS_NONE

\* the conversion branch taken, DETILE or TILE, or none
FrameCopyOp(dstTileLayout, srcTileLayout) ==
    IF dstTileLayout = FF_FBTILE_NONE THEN FF_FBTILE_OPS_DETILE
    ELSE IF srcTileLayout = FF_FBTILE_NONE THEN FF_FBTILE_OPS_TILE
    ELSE FF_FBTILE_OPS_NONE

\* *status = FF_FBTILE_FRAMECOPY_COPYONLY; return av_frame_copy(dst, src)
FrameCopyOnly(f, op, called, conv, cp) ==
    [f EXCEPT !.pc = "done", !.status = FF_FBTILE_FRAMECOPY_COPYONLY,
              !.ret = cp.ret, !.dst.data = cp.data, !.src.data = conv.src,
              !.convOp = IF called THEN op ELSE f.convOp,
              !.convRet = IF called THEN conv.ret ELSE f.convRet,
              !.walked = conv.walked, !.oob = conv.oob]

\* the status set and FBT_OK returned whatever fbtile_conv returned
FrameCopyConvertedAnyRet(f, op, called, conv) ==
    IF called
    THEN [f EXCEPT !.pc = "done", !.status = FF_FBTILE_FRAMECOPY_TILECOPY,
                   !.ret = FBT_OK, !.dst.data = conv.dst, !.src.data = conv.src,
                   !.convOp = op, !.convRet = conv.ret,
                   !.walked = conv.walked, !.oob = conv.oob]
    ELSE FrameCopyOnly(f, op, called, conv,
                       av_frame_copy([f.dst EXCEPT !.data = conv.dst],
                                     [f.src EXCEPT !.data = conv.src]))

\* if (!err) { *status = FF_FBTILE_FRAMECOPY_TILECOPY; return FBT_OK; }
FrameCopyConverted(f, op, called, conv) ==
    IF called /\ conv.ret = 0
    THEN [f EXCEPT !.pc = "done", !.status = FF_FBTILE_FRAMECOPY_TILECOPY,
                   !.ret = FBT_OK, !.dst.data = conv.dst, !.src.data = conv.src,
                   !.convOp = op, !.convRet = conv.ret,
                   !.walked = conv.walked, !.oob = conv.oob]
    ELSE FrameCopyOnly(f, op, called, conv,
                       av_frame_copy([f.dst EXCEPT !.data = conv.dst],
                                     [f.src EXCEPT !.data = conv.src]))

\* err = ff_fbtile_checkpixformats(..); if (!err) err = fbtile_conv(..):
\* DETILE takes the layout of src and the size of dst, TILE the layout of
\* dst and the size of src
FrameCopyChecked(f, op, err) ==
    FrameCopyConverted([f EXCEPT !.pixErr = IF op # FF_FBTILE_OPS_NONE THEN err ELSE f.pixErr],
        op, op # FF_FBTILE_OPS_NONE /\ err = 0,
        IF op # FF_FBTILE_OPS_NONE /\ err = 0
        THEN fbtile_conv(op,
                         IF op = FF_FBTILE_OPS_DETILE THEN f.srcTileLayout ELSE f.dstTileLayout,
                         IF op = FF_FBTILE_OPS_DETILE THEN f.dst.width ELSE f.src.width,
                         IF op = FF_FBTILE_OPS_DETILE THEN f.dst.height ELSE f.src.height,
                         f.dst.data, f.dst.linesize, f.src.data, f.src.linesize, 4)
        ELSE [ret |-> err, dst |-> f.dst.data, src |-> f.src.data,
              walked |-> FALSE, oob |-> FALSE])

FrameCopyBranch(f, op) ==
    FrameCopyChecked(f, op,
                     IF op # FF_FBTILE_OPS_NONE
                     THEN ff_fbtile_checkpixformats(f.src.format, f.dst.format) ELSE 1)

\* the whole of ff_fbtile_frame_copy on the call record f
ff_fbtile_frame_copy(f) == FrameCopyBranch(f, FrameCopyOp(f.dstTileLayout, f.srcTileLayout))

Frame(format, w, h, linesize, data) ==
    [format |-> format, width |-> w, height |-> h, linesize |-> linesize, data |-> data]

\* the layouts, formats, sizes and line sizes of the frame copies explored:
\* every pair of layouts; formats on and off the allow-list; frames of one
\* tile of the pair's tiled layout, with a width or a height remainder of
\* FrameRemainder pixels, and FrameRemainder lines high (lower than a tile);
\* line sizes tight or padded by FramePad bytes
FrameLayouts ==
    {FF_FBTILE_NONE, FF_FBTILE_INTEL_XGEN9, FF_FBTILE_INTEL_YGEN9, FF_FBTILE_INTEL_YF,
     FF_FBTILE_UNKNOWN}
FrameFormats ==
    {<<"AV_PIX_FMT_RGB0", "AV_PIX_FMT_RGB0">>, <<"AV_PIX_FMT_BGRA", "AV_PIX_FMT_ABGR">>,
     <<"AV_PIX_FMT_NV12", "AV_PIX_FMT_RGB0">>, <<"AV_PIX_FMT_RGB0", "AV_PIX_FMT_YUV420P">>}
FrameRemainder == 4
FramePad == 64
FrameTileWalk(dl, sl) ==
    IF dl \in TiledLayouts THEN TileWalkOf(dl)
    ELSE IF sl \in TiledLayouts THEN TileWalkOf(sl)
    ELSE tyfTileWalk
FrameSizes(tw) ==
    { <<tw.tileWidth, tw.tileHeight>>,
      <<tw.tileWidth + FrameRemainder, tw.tileHeight>>,
      <<tw.tileWidth, tw.tileHeight + FrameRemainder>>,
      <<tw.tileWidth, FrameRemainder>> }
FramePads == {<<0, 0>>, <<FramePad, 0>>, <<0, FramePad>>}

\* *status and the conversion bookkeeping before the call: not written
Unset == -1

FrameCopyCall(dl, sl, fm, sz, pad) ==
    [pc |-> "idle", dstTileLayout |-> dl, srcTileLayout |-> sl,
     src |-> Frame(fm[1], sz[1], sz[2], sz[1] * 4 + pad[1],
                   InitBuf("distinct", sz[2], sz[1] * 4 + pad[1])),
     dst |-> Frame(fm[2], sz[1], sz[2], sz[1] * 4 + pad[2],
                   FreshBuf(sz[2], sz[1] * 4 + pad[2])),
     status |-> Unset, ret |-> Unset, pixErr |-> Unset, convOp |-> Unset,
     convRet |-> Unset, walked |-> FALSE, oob |-> FALSE]

\* the pixel formats of the sweep over format pairs: the eight of the
\* allow-list, the terminator AV_PIX_FMT_NONE and two formats off the list
SweepFormats ==
    {"AV_PIX_FMT_RGB0", "AV_PIX_FMT_0RGB", "AV_PIX_FMT_BGR0", "AV_PIX_FMT_0BGR",
     "AV_PIX_FMT_RGBA", "AV_PIX_FMT_ARGB", "AV_PIX_FMT_BGRA", "AV_PIX_FMT_ABGR",
     "AV_PIX_FMT_NONE", "AV_PIX_FMT_NV12", "AV_PIX_FMT_YUV420P"}
\* the layout pairs of the sweep: a detile of Tile-Y and a tile to Tile-X
SweepLayouts ==
    {<<FF_FBTILE_NONE, FF_FBTILE_INTEL_YGEN9>>, <<FF_FBTILE_INTEL_XGEN9, FF_FBTILE_NONE>>}

InitFrame ==
    /\ \/ \E ls \in FrameLayouts \X FrameLayouts, fm \in FrameFormats, pad \in FramePads :
            \E sz \in FrameSizes(FrameTileWalk(ls[1], ls[2])) :
               fc = FrameCopyCall(ls[1], ls[2], fm, sz, pad)
       \/ \E ls \in SweepLayouts, fm \in SweepFormats \X SweepFormats :
            fc = FrameCopyCall(ls[1], ls[2], fm,
                               <<FrameTileWalk(ls[1], ls[2]).tileWidth,
                                 FrameTileWalk(ls[1], ls[2]).tileHeight>>, <<0, 0>>)
    /\ gl = NoGetLayoutId
    /\ cv = NoConv
    /\ hd = NoDownload
    /\ tf = NoFilter
    /\ call = Image(FF_FBTILE_OPS_NONE, FF_FBTILE_INTEL_XGEN9, 0, 0, 0, 0)
    /\ fill = "distinct"
    /\ phase = 0
    /\ sim = IdleWalker
    /\ opt = IdleWalker
    /\ ssrc = <<>>
    /\ sdst = <<>>
    /\ osrc = <<>>
    /\ odst = <<>>

FrameCopy ==
    /\ fc.pc = "idle"
    /\ fc' = ff_fbtile_frame_copy(fc)
    /\ UNCHANGED <<call, fill, phase, sim, ssrc, sdst, opt, osrc, odst, gl, cv, hd, tf>>

NextFrame == FrameCopy

SpecFrame == InitFrame /\ [][NextFrame]_vars

(***************************************************************************)
(* fbtile_conv called by two callers on buffers of their own, their steps  *)
(* interleaved in any order.  The statics of fbtile_conv, logStateNone and *)
(* logStateUnknown, are shared by the callers; a walker's locals are the   *)
(* caller's own.  One step is the entry into the switch, one av_log_once   *)
(* read or write of a log state, or one iteration of the walker loop.      *)
(***************************************************************************)
ConvCallers == {1, 2}

\* width remainder, in pixels, of the calls the walker refuses
ConvRemainder == 4

\* the descriptor a call is sized by
ConvTileWalk(layout) == IF layout \in TiledLayouts THEN TileWalkOf(layout) ELSE txTileWalk

\* the layout values passed: the enum's five and one beyond it
ConvLayouts ==
    {FF_FBTILE_NONE, FF_FBTILE_INTEL_XGEN9, FF_FBTILE_INTEL_YGEN9, FF_FBTILE_INTEL_YF,
     FF_FBTILE_UNKNOWN, FF_FBTILE_UNKNOWN + 1}

\* a caller about to call fbtile_conv on a w x h image with tight line sizes
ConvCaller(op, layout, w, h) ==
    [pc |-> "idle", op |-> op, layout |-> layout, w |-> w, h |-> h,
     dstLineSize |-> w * ConvTileWalk(layout).bytesPerPixel,
     srcLineSize |-> w * ConvTileWalk(layout).bytesPerPixel,
     src |-> InitBuf("distinct", h, w * ConvTileWalk(layout).bytesPerPixel),
     dst |-> FreshBuf(h, w * ConvTileWalk(layout).bytesPerPixel),
     st |-> IdleWalker, msg |-> "", ret |-> Unset, oob |-> FALSE]

\* the heights of the first caller: one tile row, one tile row and a
\* remainder, less than a tile row
ConvHeights(layout) ==
    {ConvTileWalk(layout).tileHeight, ConvTileWalk(layout).tileHeight + ConvRemainder,
     ConvRemainder}

InitConv ==
    /\ \E l1 \in ConvLayouts, op1 \in Ops, r1 \in {0, ConvRemainder},
          l2 \in {FF_FBTILE_NONE, FF_FBTILE_UNKNOWN, FF_FBTILE_INTEL_XGEN9} :
       \E h1 \in ConvHeights(l1) :
         (r1 = 0 \/ h1 = ConvTileWalk(l1).tileHeight) /\
         cv = [pc |-> "run", logStateNone |-> 0, logStateUnknown |-> 0, log |-> <<>>,
               c |-> <<ConvCaller(op1, l1, ConvTileWalk(l1).tileWidth + r1, h1),
                       ConvCaller(FF_FBTILE_OPS_DETILE, l2, ConvTileWalk(l2).tileWidth,
                                  ConvTileWalk(l2).tileHeight)>>]
    /\ fc = NoFrameCopy
    /\ gl = NoGetLayoutId
    /\ hd = NoDownload
    /\ tf = NoFilter
    /\ call = Image(FF_FBTILE_OPS_NONE, FF_FBTILE_INTEL_XGEN9, 0, 0, 0, 0)
    /\ fill = "distinct"
    /\ phase = 0
    /\ sim = IdleWalker
    /\ opt = IdleWalker
    /\ ssrc = <<>>
    /\ sdst = <<>>
    /\ osrc = <<>>
    /\ odst = <<>>

convOthers == <<call, fill, phase, sim, ssrc, sdst, opt, osrc, odst, fc, gl, hd, tf>>

\* the walker locals every call would use if they were declared static
ConvLocalsShared(v, i) == v.c[1].st

\* the walker locals of caller i: automatic variables of its own call
ConvLocals(v, i) == v.c[i].st

\* switch(layout) with FF_FBTILE_NONE falling into the default case
ConvEnteredDefault(c, st) ==
    IF c.layout \notin TiledLayouts THEN [c EXCEPT !.pc = "log", !.msg = "Unknown"]
    ELSE IF st.pc = "done" THEN [c EXCEPT !.pc = "done", !.ret = st.ret, !.st = st]
    ELSE [c EXCEPT !.pc = "walk", !.st = st]

\* switch(layout): the two logging cases go on to av_log_once, a tiled
\* layout enters the optimized walker, which returns at once when it
\* refuses the geometry
ConvEntered(c, st) ==
    IF c.layout = FF_FBTILE_NONE THEN [c EXCEPT !.pc = "log", !.msg = "None"]
    ELSE IF c.layout \notin TiledLayouts THEN [c EXCEPT !.pc = "log", !.msg = "Unknown"]
    ELSE IF st.pc = "done" THEN [c EXCEPT !.pc = "done", !.ret = st.ret, !.st = st]
    ELSE [c EXCEPT !.pc = "walk", !.st = st]

ConvEnter(i) ==
    /\ cv.pc = "run"
    /\ cv.c[i].pc = "idle"
    /\ cv' = [cv EXCEPT !.c[i] = ConvEntered(cv.c[i],
                                             IF cv.c[i].layout \in TiledLayouts
                                             THEN OptiEntry(cv.c[i]) ELSE IdleWalker)]
    /\ UNCHANGED convOthers

\* av_log_once(NULL, AV_LOG_WARNING, AV_LOG_VERBOSE, &state, ..): the level
\* of the message is the initial level while *state is 0
av_log_once(state) == IF state = 0 THEN "AV_LOG_WARNING" ELSE "AV_LOG_VERBOSE"

\* one log state for both messages
ConvLogStateCommon(v, msg) == IF v.logStateNone = 1 THEN 1 ELSE v.logStateUnknown

ConvLogState(v, msg) == IF msg = "None" THEN v.logStateNone ELSE v.logStateUnknown

\* av_log_once reads the log state and emits the message
ConvLog(i) ==
    /\ cv.pc = "run"
    /\ cv.c[i].pc = "log"
    /\ cv' = [cv EXCEPT !.log = Append(cv.log,
                                       [who |-> i, msg |-> cv.c[i].msg,
                                        level |-> av_log_once(ConvLogState(cv, cv.c[i].msg))]),
                        !.c[i].pc = "logged"]
    /\ UNCHANGED convOthers

\* av_log_once sets the log state; fbtile_conv returns AVERROR(EALREADY)
\* for FF_FBTILE_NONE and AVERROR(EINVAL) in the default case
ConvLogSet(i) ==
    /\ cv.pc = "run"
    /\ cv.c[i].pc = "logged"
    /\ cv' = [cv EXCEPT !.logStateNone = IF cv.c[i].msg = "None" THEN 1 ELSE cv.logStateNone,
                        !.logStateUnknown = IF cv.c[i].msg = "Unknown" THEN 1
                                            ELSE cv.logStateUnknown,
                        !.c[i].pc = "done",
                        !.c[i].ret = IF cv.c[i].msg = "None" THEN AVERROR_EALREADY
                                     ELSE AVERROR_EINVAL]
    /\ UNCHANGED convOthers

\* one iteration of the walker loop of caller c with locals st
ConvIterated(c, st, runs, n) ==
    [c EXCEPT !.st = OptiAdvance(c, Counted(st, runs, n)),
              !.src = SrcOf(c.op, CopyRuns(Mem(c.op, c.src, c.dst), OptiToTld(c.op),
                                           runs, 1, n, 0)),
              !.dst = DstOf(c.op, CopyRuns(Mem(c.op, c.src, c.dst), OptiToTld(c.op),
                                           runs, 1, n, 0)),
              !.oob = c.oob \/ ~RunsInBufs(Mem(c.op, c.src, c.dst), runs, n)]

ConvWalking(st) == st.pc = "loop" /\ st.cSTL < st.nSTLines

ConvWalk(i) ==
    /\ cv.pc = "run"
    /\ cv.c[i].pc = "walk"
    /\ ConvWalking(ConvLocals(cv, i))
    /\ cv' = [cv EXCEPT !.c[i] = ConvIterated(cv.c[i], ConvLocals(cv, i),
                                              OptiRuns(cv.c[i], ConvLocals(cv, i)),
                                              TileWalkOf(cv.c[i].layout).subTileWidth
                                                * TileWalkOf(cv.c[i].layout).bytesPerPixel)]
    /\ UNCHANGED convOthers

\* the walker loop ends: return FBT_OK
ConvWalkReturn(i) ==
    /\ cv.pc = "run"
    /\ cv.c[i].pc = "walk"
    /\ ~ConvWalking(ConvLocals(cv, i))
    /\ cv' = [cv EXCEPT !.c[i].pc = "done", !.c[i].ret = FBT_OK]
    /\ UNCHANGED convOthers

NextConv ==
    \/ \E i \in ConvCallers : ConvEnter(i)
    \/ \E i \in ConvCallers : ConvLog(i)
    \/ \E i \in ConvCallers : ConvLogSet(i)
    \/ \E i \in ConvCallers : ConvWalk(i)
    \/ \E i \in ConvCallers : ConvWalkReturn(i)

SpecConv == InitConv /\ [][NextConv]_vars

(***************************************************************************)
(* A sequence of fbtile_conv calls made one after the other, as by a       *)
(* filter called frame after frame: call k+1 starts when call k has        *)
(* returned.  cv.c holds the calls made so far.                            *)
(***************************************************************************)
MaxConvCalls == 4

\* the layouts of the calls of the sequence
ConvSequenceLayouts ==
    {FF_FBTILE_NONE, FF_FBTILE_INTEL_XGEN9, FF_FBTILE_UNKNOWN, FF_FBTILE_UNKNOWN + 1}

ConvSequenceCall(l) ==
    ConvCaller(FF_FBTILE_OPS_DETILE, l, ConvTileWalk(l).tileWidth, ConvTileWalk(l).tileHeight)

InitConvSequence ==
    /\ \E l \in ConvSequenceLayouts :
         cv = [pc |-> "run", logStateNone |-> 0, logStateUnknown |-> 0, log |-> <<>>,
               c |-> <<ConvSequenceCall(l)>>]
    /\ fc = NoFrameCopy
    /\ gl = NoGetLayoutId
    /\ hd = NoDownload
    /\ tf = NoFilter
    /\ call = Image(FF_FBTILE_OPS_NONE, FF_FBTILE_INTEL_XGEN9, 0, 0, 0, 0)
    /\ fill = "distinct"
    /\ phase = 0
    /\ sim = IdleWalker
    /\ opt = IdleWalker
    /\ ssrc = <<>>
    /\ sdst = <<>>
    /\ osrc = <<>>
    /\ odst = <<>>

\* the next call of the sequence
ConvNextCall ==
    /\ cv.pc = "run"
    /\ Len(cv.c) < MaxConvCalls
    /\ cv.c[Len(cv.c)].pc = "done"
    /\ \E l \in ConvSequenceLayouts :
         cv' = [cv EXCEPT !.c = Append(cv.c, ConvSequenceCall(l))]
    /\ UNCHANGED convOthers

NextConvSequence ==
    \/ \E i \in DOMAIN cv.c : ConvEnter(i)
    \/ \E i \in DOMAIN cv.c : ConvLog(i)
    \/ \E i \in DOMAIN cv.c : ConvLogSet(i)
    \/ \E i \in DOMAIN cv.c : ConvWalk(i)
    \/ \E i \in DOMAIN cv.c : ConvWalkReturn(i)
    \/ ConvNextCall

SpecConvSequence == InitConvSequence /\ [][NextConvSequence]_vars

(***************************************************************************)
(* hwdownload with the fbdetile option (the filter of the earlier version  *)
(* of the library, whose detile_this takes a mode).  The input frame is    *)
(* one tile of Tile-X wide and one tile of Tile-Y high, 4 bytes per pixel. *)
(***************************************************************************)
TILE_NONE == 0
TILE_AUTO == 1
TILE_INTELX == 2
TILE_INTELY == 3
TILE_INTELYF == 4
TILE_INTELGX == 5
TILE_INTELGY == 6
TILE_NONE_END == 7
AVERROR_ENOMEM == -12

\* fbtilemode_from_formatmodifier of the library, in a build with libdrm
fbtilemode_from_formatmodifier(formatModifier) ==
    CASE formatModifier = DRM_FORMAT_MOD_LINEAR -> TILE_NONE
      [] formatModifier = I915_FORMAT_MOD_X_TILED -> TILE_INTELX
      [] formatModifier = I915_FORMAT_MOD_Y_TILED -> TILE_INTELY
      [] formatModifier = I915_FORMAT_MOD_Yf_TILED -> TILE_INTELYF
      [] OTHER -> TILE_NONE_END

\* the filter's own map from the format modifier of a DRM frame to a mode
fbdetile_formatmodifier_map(formatModifier) ==
    CASE formatModifier = DRM_FORMAT_MOD_LINEAR -> TILE_NONE
      [] formatModifier = I915_FORMAT_MOD_X_TILED -> TILE_INTELX
      [] formatModifier = I915_FORMAT_MOD_Y_TILED -> TILE_INTELY
      [] formatModifier = I915_FORMAT_MOD_Yf_TILED -> TILE_INTELYF
      [] OTHER -> TILE_NONE_END

\* the arguments of a detile of a w x h image as a call record
DetileCall(layout, w, h, dstLineSize, srcLineSize) ==
    [op |-> FF_FBTILE_OPS_DETILE, layout |-> layout, w |-> w, h |-> h,
     dstLineSize |-> dstLineSize, srcLineSize |-> srcLineSize]

\* detile_intelx, detile_intely and detile_generic log a line size or width
\* they do not support and go on: the locals at the head of the loop
DetileEntry(c) ==
    [IdleWalker EXCEPT !.pc = "loop", !.tH = c.h,
                       !.nTilesInARow = c.w \div TileWalkOf(c.layout).tileWidth,
                       !.parallel = ParallelOf(c.w \div TileWalkOf(c.layout).tileWidth),
                       !.nSTLines = (c.w * c.h) \div TileWalkOf(c.layout).subTileWidth]

\* detile_this after TILE_AUTO has been resolved: the layout whose walk it
\* runs, FF_FBTILE_NONE when it returns 1 without detiling
detile_mode(mode) ==
    CASE mode = TILE_INTELX -> FF_FBTILE_INTEL_XGEN9
      [] mode = TILE_INTELY -> FF_FBTILE_INTEL_YGEN9
      [] mode = TILE_INTELYF -> FF_FBTILE_INTEL_YF
      [] mode = TILE_INTELGX -> FF_FBTILE_INTEL_XGEN9
      [] mode = TILE_INTELGY -> FF_FBTILE_INTEL_YGEN9
      [] OTHER -> FF_FBTILE_NONE

detile_this(mode, arg1) ==
    detile_mode(IF mode = TILE_AUTO THEN fbtilemode_from_formatmodifier(arg1) ELSE mode)

\* the modes detile_this hands to detile_generic (detile_generic_opti); the
\* other detiling modes go to detile_intelx and detile_intely
detile_generic(mode) == mode \in {TILE_INTELYF, TILE_INTELGX, TILE_INTELGY}

HdWidth == txTileWalk.tileWidth
HdHeight == tyTileWalk.tileHeight
HdLineSize == HdWidth * txTileWalk.bytesPerPixel

\* the bytes of the hardware frame, as av_hwframe_transfer_data downloads
\* them
HdFrame == InitBuf("distinct", HdHeight, HdLineSize)

\* ff_get_video_buffer takes a buffer from the pool of the link: zeroed
\* when newly allocated, the bytes of an earlier frame when reused
HdPoolBytes == {0, 255}
HdBuffer(g) == [y \in 1..HdHeight |-> [x \in 1..HdLineSize |-> g]]

HdFormats == {"AV_PIX_FMT_DRM_PRIME", "AV_PIX_FMT_VAAPI"}
HdModifiers ==
    {DRM_FORMAT_MOD_LINEAR, I915_FORMAT_MOD_X_TILED, I915_FORMAT_MOD_Y_TILED,
     I915_FORMAT_MOD_Yf_TILED, <<1, 4>>}

FilterFrame(fbdetile, format, modifier, hwframes) ==
    [pc |-> "check", fbdetile |-> fbdetile, format |-> format,
     format_modifier |-> modifier, hwframes |-> hwframes,
     output |-> <<>>, output2 |-> <<>>, fbdetileMode |-> Unset,
     layout |-> FF_FBTILE_NONE, st |-> IdleWalker, oob |-> FALSE,
     err |-> Unset, delivered |-> <<>>]

InitDownload ==
    /\ \E fbdetile \in 0..(TILE_NONE_END - 1), format \in HdFormats,
          modifier \in HdModifiers, hwframes \in BOOLEAN :
         /\ format # "AV_PIX_FMT_DRM_PRIME" => modifier = DRM_FORMAT_MOD_LINEAR
         /\ hd = FilterFrame(fbdetile, format, modifier, hwframes)
    /\ tf = NoFilter
    /\ fc = NoFrameCopy
    /\ gl = NoGetLayoutId
    /\ cv = NoConv
    /\ call = Image(FF_FBTILE_OPS_NONE, FF_FBTILE_INTEL_XGEN9, 0, 0, 0, 0)
    /\ fill = "distinct"
    /\ phase = 0
    /\ sim = IdleWalker
    /\ opt = IdleWalker
    /\ ssrc = <<>>
    /\ sdst = <<>>
    /\ osrc = <<>>
    /\ odst = <<>>

hdOthers == <<call, fill, phase, sim, ssrc, sdst, opt, osrc, odst, fc, gl, cv, tf>>

\* if (!ctx->hwframes_ref || !input->hw_frames_ctx) .. goto fail
HdCheck ==
    /\ hd.pc = "check"
    /\ hd' = IF hd.hwframes THEN [hd EXCEPT !.pc = "get"]
             ELSE [hd EXCEPT !.pc = "fail", !.err = AVERROR_EINVAL]
    /\ UNCHANGED hdOthers

\* output = ff_get_video_buffer(..); if (!output) .. goto fail
HdGetBuffer ==
    /\ hd.pc = "get"
    /\ \/ \E g \in HdPoolBytes : hd' = [hd EXCEPT !.pc = "transfer", !.output = HdBuffer(g)]
       \/ hd' = [hd EXCEPT !.pc = "fail", !.err = AVERROR_ENOMEM]
    /\ UNCHANGED hdOthers

\* err = av_hwframe_transfer_data(output, input, 0); av_frame_copy_props
HdTransfer ==
    /\ hd.pc = "transfer"
    /\ \/ hd' = [hd EXCEPT !.pc = "get2", !.output = HdFrame]
       \/ \E e \in {AVERROR_EINVAL, AVERROR_ENOMEM} :
            hd' = [hd EXCEPT !.pc = "fail", !.err = e]
    /\ UNCHANGED hdOthers

\* output2 = ff_get_video_buffer(..); if (!output2) .. goto fail
HdGetBuffer2 ==
    /\ hd.pc = "get2"
    /\ \/ \E g \in HdPoolBytes : hd' = [hd EXCEPT !.pc = "detile", !.output2 = HdBuffer(g)]
       \/ hd' = [hd EXCEPT !.pc = "fail", !.err = AVERROR_ENOMEM]
    /\ UNCHANGED hdOthers

\* the mode detile_this is called with
HdMode(h) ==
    IF h.format = "AV_PIX_FMT_DRM_PRIME"
    THEN fbdetile_formatmodifier_map(h.format_modifier)
    ELSE h.fbdetile

HdCall(h) == DetileCall(h.layout, HdWidth, HdHeight, HdLineSize, HdLineSize)

HdEntered(h, mode, layout) ==
    IF layout = FF_FBTILE_NONE
    THEN [h EXCEPT !.pc = "deliver", !.fbdetileMode = mode, !.layout = layout]
    ELSE [h EXCEPT !.pc = "walk", !.fbdetileMode = mode, !.layout = layout,
                   !.st = DetileEntry(DetileCall(layout, HdWidth, HdHeight,
                                                 HdLineSize, HdLineSize))]

\* fbdetileMode = ctx->fbdetile, replaced for a DRM frame; detile_this(..)
\* is entered
HdDetile ==
    /\ hd.pc = "detile"
    /\ hd' = HdEntered(hd, HdMode(hd), detile_this(HdMode(hd), DRM_FORMAT_MOD_LINEAR))
    /\ UNCHANGED hdOthers

HdRuns(h) ==
    IF detile_generic(h.fbdetileMode) THEN OptiRuns(HdCall(h), h.st)
    ELSE SimpleRuns(HdCall(h), h.st)

HdAdvance(h, st) ==
    IF detile_generic(h.fbdetileMode) THEN OptiAdvance(HdCall(h), st)
    ELSE SimpleAdvance(HdCall(h), st)

HdIterated(h, runs, n) ==
    [h EXCEPT !.st = HdAdvance(h, Counted(h.st, runs, n)),
              !.output2 = CopyRuns([lin |-> h.output2, tld |-> h.output, oob |-> FALSE],
                                   FALSE, runs, 1, n, 0).lin,
              !.oob = h.oob \/ ~RunsInBufs([lin |-> h.output2, tld |-> h.output], runs, n)]

\* one iteration of the loop of the detile function
HdWalk ==
    /\ hd.pc = "walk"
    /\ ConvWalking(hd.st)
    /\ hd' = HdIterated(hd, HdRuns(hd),
                        TileWalkOf(hd.layout).subTileWidth * TileWalkOf(hd.layout).bytesPerPixel)
    /\ UNCHANGED hdOthers

\* the loop ends and detile_this returns 0
HdWalkReturn ==
    /\ hd.pc = "walk"
    /\ ~ConvWalking(hd.st)
    /\ hd' = [hd EXCEPT !.pc = "deliver"]
    /\ UNCHANGED hdOthers

\* av_frame_free(&input); av_frame_free(&output); return ff_filter_frame(.., output2)
HdDeliver ==
    /\ hd.pc = "deliver"
    /\ hd' = [hd EXCEPT !.pc = "done", !.delivered = hd.output2, !.output = <<>>,
                        !.output2 = <<>>, !.err = 0]
    /\ UNCHANGED hdOthers

\* fail: the frames are freed and err returned
HdFail ==
    /\ hd.pc = "fail"
    /\ hd' = [hd EXCEPT !.pc = "done", !.output = <<>>, !.output2 = <<>>]
    /\ UNCHANGED hdOthers

NextDownload ==
    \/ HdCheck
    \/ HdGetBuffer
    \/ HdTransfer
    \/ HdGetBuffer2
    \/ HdDetile
    \/ HdWalk
    \/ HdWalkReturn
    \/ HdDeliver
    \/ HdFail

SpecDownload == InitDownload /\ [][NextDownload]_vars

(***************************************************************************)
(* filter_frame of vf_fbtiler.c on one input frame, for every op and       *)
(* layout the options of the filter admit. A frame is "owned" by the       *)
(* filter, "sent" once ff_filter_frame took it, or "freed"; the output     *)
(* frame is "none" until ff_get_video_buffer returns it.                   *)
(***************************************************************************)
\* fbtiler_options: op in 0..FF_FBTILE_OPS_UNKNOWN-1, layout in 0..FF_FBTILE_UNKNOWN-1
FbtilerOps == 0..(FF_FBTILE_OPS_UNKNOWN - 1)
FbtilerLayouts == 0..(FF_FBTILE_UNKNOWN - 1)

\* the frame sizes fed to the filter: one tile of the layout, and one tile
\* with a width remainder
FbtilerSizes(layout) ==
    LET tw == FrameTileWalk(layout, FF_FBTILE_NONE)
    IN { <<tw.tileWidth, tw.tileHeight>>, <<tw.tileWidth + FrameRemainder, tw.tileHeight>> }

\* results of the downstream filter
FbtilerDownstream == {0, AVERROR_EINVAL}

fbtilerCall(op, layout, f, sz) ==
    [pc |-> "entry", op |-> op, layout |-> layout, in |-> "in", out |-> "NULL",
     frames |-> [in |-> [state |-> "owned", frees |-> 0,
                         frame |-> Frame("AV_PIX_FMT_RGB0", sz[1], sz[2], sz[1] * 4,
                                         InitBuf(f, sz[2], sz[1] * 4))],
                 out |-> [state |-> "none", frees |-> 0, frame |-> <<>>]],
     given |-> InitBuf(f, sz[2], sz[1] * 4),
     allocs |-> 0, sent |-> <<>>, status |-> Unset, ret |-> Unset]

InitFbtiler ==
    /\ \E op \in FbtilerOps, layout \in FbtilerLayouts, f \in Fills :
         \E sz \in FbtilerSizes(layout) : tf = fbtilerCall(op, layout, f, sz)
    /\ fc = NoFrameCopy
    /\ gl = NoGetLayoutId
    /\ cv = NoConv
    /\ hd = NoDownload
    /\ call = Image(FF_FBTILE_OPS_NONE, FF_FBTILE_INTEL_XGEN9, 0, 0, 0, 0)
    /\ fill = "distinct"
    /\ phase = 0
    /\ sim = IdleWalker
    /\ opt = IdleWalker
    /\ ssrc = <<>>
    /\ sdst = <<>>
    /\ osrc = <<>>
    /\ odst = <<>>

tfOthers == <<call, fill, phase, sim, ssrc, sdst, opt, osrc, odst, fc, gl, cv, hd>>

\* av_frame_free(&p): the frame p points to is freed and p set to NULL
av_frame_free(t, p, id) ==
    IF p = "NULL" THEN t
    ELSE [t EXCEPT !.frames[id].state = "freed",
                   !.frames[id].frees = t.frames[id].frees + 1]

\* ff_filter_frame(outlink, frame): the frame goes downstream as it is and
\* the result of the downstream filter is returned
ff_filter_frame(t, id, r) ==
    [t EXCEPT !.pc = "done", !.ret = r,
              !.sent = Append(t.sent, [id |-> id, state |-> t.frames[id].state,
                                       data |-> t.frames[id].frame.data]),
              !.frames[id].state = "sent"]

\* the pass-through test with the layout left out
fbtilerPassThroughOpOnly(op, layout) == op = FF_FBTILE_OPS_NONE

\* (fbtiler->op == FF_FBTILE_OPS_NONE) || (fbtiler->layout == FF_FBTILE_NONE)
fbtilerPassThrough(op, layout) == op = FF_FBTILE_OPS_NONE \/ layout = FF_FBTILE_NONE

\* if (op None || layout None) return ff_filter_frame(outlink, in);
FbtilerEnter ==
    /\ tf.pc = "entry"
    /\ IF fbtilerPassThrough(tf.op, tf.layout)
       THEN \E r \in FbtilerDownstream : tf' = ff_filter_frame(tf, tf.in, r)
       ELSE tf' = [tf EXCEPT !.pc = "get"]
    /\ UNCHANGED tfOthers

\* out = ff_get_video_buffer(outlink, outlink->w, outlink->h);
\* if (!out) { av_frame_free(&in); return AVERROR(ENOMEM); }
\* av_frame_copy_props(out, in);
FbtilerGetBuffer ==
    /\ tf.pc = "get"
    /\ \/ tf' = [tf EXCEPT !.pc = "copy", !.out = "out", !.allocs = tf.allocs + 1,
                           !.frames.out =
                               [state |-> "owned", frees |-> 0,
                                frame |-> [tf.frames.in.frame EXCEPT
                                             !.data = FreshBuf(tf.frames.in.frame.height,
                                                               tf.frames.in.frame.linesize)]]]
       \/ tf' = [av_frame_free(tf, tf.in, "in") EXCEPT
                   !.pc = "done", !.in = "NULL", !.ret = AVERROR_ENOMEM]
    /\ UNCHANGED tfOthers

\* the call record of the frame copy of filter_frame
fbtilerFrameCopyCall(t, dl, sl) ==
    [pc |-> "idle", dstTileLayout |-> dl, srcTileLayout |-> sl,
     src |-> t.frames.in.frame, dst |-> t.frames.out.frame,
     status |-> Unset, ret |-> Unset, pixErr |-> Unset, convOp |-> Unset,
     convRet |-> Unset, walked |-> FALSE, oob |-> FALSE]

\* what the frame copy leaves in the two frames and in status
fbtilerCopied(t, f) ==
    [t EXCEPT !.pc = "free", !.status = f.status,
              !.frames.in.frame = f.src, !.frames.out.frame = f.dst]

\* if (op == DETILE) fbtile_frame_copy(out, FF_FBTILE_NONE, in, layout, &status);
\* else              fbtile_frame_copy(out, layout, in, FF_FBTILE_NONE, &status);
FbtilerCopy ==
    /\ tf.pc = "copy"
    /\ \E c \in { IF tf.op = FF_FBTILE_OPS_DETILE
                  THEN fbtilerFrameCopyCall(tf, FF_FBTILE_NONE, tf.layout)
                  ELSE fbtilerFrameCopyCall(tf, tf.layout, FF_FBTILE_NONE) } :
         \E f \in { ff_fbtile_frame_copy(c) } : tf' = fbtilerCopied(tf, f)
    /\ UNCHANGED tfOthers

\* av_frame_free(&in);
FbtilerFree ==
    /\ tf.pc = "free"
    /\ tf' = [av_frame_free(tf, tf.in, "in") EXCEPT !.pc = "forward", !.in = "NULL"]
    /\ UNCHANGED tfOthers

\* return ff_filter_frame(outlink, out);
FbtilerForward ==
    /\ tf.pc = "forward"
    /\ \E r \in FbtilerDownstream : tf' = ff_filter_frame(tf, tf.out, r)
    /\ UNCHANGED tfOthers

NextFbtiler ==
    \/ FbtilerEnter
    \/ FbtilerGetBuffer
    \/ FbtilerCopy
    \/ FbtilerFree
    \/ FbtilerForward

SpecFbtiler == InitFbtiler /\ [][NextFbtiler]_vars

(***************************************************************************)
(* fbtile_conv called with a bytesPerPixel argument of 1 to                *)
(* MaxBytesPerPixel on frames of one tile, one tile and a width remainder, *)
(* and two tiles, whose line sizes are w * 4 or w * bytesPerPixel.         *)
(***************************************************************************)
MaxBytesPerPixel == 8

BppLayouts ==
    {FF_FBTILE_NONE, FF_FBTILE_INTEL_XGEN9, FF_FBTILE_INTEL_YGEN9, FF_FBTILE_INTEL_YF,
     FF_FBTILE_UNKNOWN}

\* the arguments of a call on a w x h image with both line sizes lineSize
BppCall(op, layout, w, h, lineSize, bytesPerPixel) ==
    [pc |-> "call", op |-> op, layout |-> layout, w |-> w, h |-> h,
     dstLineSize |-> lineSize, srcLineSize |-> lineSize,
     bytesPerPixel |-> bytesPerPixel, out |-> <<>>]

InitBpp ==
    /\ \E op \in Ops, l \in BppLayouts, b \in 1..MaxBytesPerPixel :
       \E w \in { ConvTileWalk(l).tileWidth, ConvTileWalk(l).tileWidth + ConvRemainder,
                  2 * ConvTileWalk(l).tileWidth } :
       \E ls \in { w * 4, w * b } :
         cv = BppCall(op, l, w, ConvTileWalk(l).tileHeight, ls, b)
    /\ fc = NoFrameCopy
    /\ gl = NoGetLayoutId
    /\ hd = NoDownload
    /\ tf = NoFilter
    /\ call = Image(FF_FBTILE_OPS_NONE, FF_FBTILE_INTEL_XGEN9, 0, 0, 0, 0)
    /\ fill = "distinct"
    /\ phase = 0
    /\ sim = IdleWalker
    /\ opt = IdleWalker
    /\ ssrc = <<>>
    /\ sdst = <<>>
    /\ osrc = <<>>
    /\ odst = <<>>

\* what the call gives with bytesPerPixel b in place of its own
BppResult(c, b) ==
    fbtile_conv(c.op, c.layout, c.w, c.h, FreshBuf(c.h, c.dstLineSize), c.dstLineSize,
                InitBuf("distinct", c.h, c.srcLineSize), c.srcLineSize, b)

\* one whole call of fbtile_conv
BppConv ==
    /\ cv.pc = "call"
    /\ cv' = [cv EXCEPT !.pc = "returned", !.out = BppResult(cv, cv.bytesPerPixel)]
    /\ UNCHANGED convOthers

NextBpp == BppConv

SpecBpp == InitBpp /\ [][NextBpp]_vars

(***************************************************************************)
(* The int arithmetic of the two walkers on images of whole tiles whose    *)
(* size in bytes is just below 2^31. The buffers are left out: only the    *)
(* locals move. A walk is entered at its start, or at a tile boundary      *)
(* further on, where the locals follow from the number of tiles done       *)
(* (SimpleAtTile, OptiAtGroup), and goes on for MaxOverflowSteps           *)
(* iterations.                                                             *)
(***************************************************************************)
MaxOverflowSteps == 40

\* the largest int, and the value that stands for a result no int holds
INT_MAX == (2^30 - 1) + 2^30
Overflowed == (-INT_MAX) - 1

Abs(a) == IF a < 0 THEN -a ELSE a

\* a + b and a * b of two ints
Add32(a, b) ==
    IF a = Overflowed \/ b = Overflowed THEN Overflowed
    ELSE IF b > 0 /\ a > INT_MAX - b THEN Overflowed
    ELSE IF b < 0 /\ a < Overflowed - b THEN Overflowed
    ELSE a + b
Mul32(a, b) ==
    IF a = Overflowed \/ b = Overflowed THEN Overflowed
    ELSE IF a = 0 \/ b = 0 THEN 0
    ELSE IF Abs(a) > INT_MAX \div Abs(b) THEN Overflowed
    ELSE a * b

TileBytes(tw) == tw.tileWidth * tw.tileHeight * tw.bytesPerPixel
\* sub tile lines of one tile
TileLines(tw) == (tw.tileWidth * tw.tileHeight) \div tw.subTileWidth

\* the most tiles an image of less than 2^31 bytes has
MaxTiles(l) == INT_MAX \div TileBytes(TileWalkOf(l))

\* the images: n tiles in a row by as many tile rows as stay below 2^31
\* bytes, for rows that the optimized walker takes 1, 7, 8 and 4 tiles at
\* a time, and an image of no lines
OverflowTilesInARow(l) == {1, 7, 8, 724, MaxTiles(l)}
OverflowTileRows(l, n) == IF n = 1 THEN {MaxTiles(l), 0} ELSE {MaxTiles(l) \div n}

\* the tiles (groups of tiles) a walk is entered at: the last of the first
\* row, the first of the last row and the last
OverflowTiles(perRow, rows) ==
    IF rows = 0 THEN {} ELSE {perRow - 1, perRow * (rows - 1), perRow * rows - 1}

\* the locals of _fbtile_generic_simple at the head of the loop when t
\* tiles are done
SimpleAtTile(c, t) ==
    LET tw == TileWalkOf(c.layout)
        n == c.w \div tw.tileWidth
    IN [SimpleEntry(c) EXCEPT !.cSTL = t * TileLines(tw), !.tO = t * TileBytes(tw),
                              !.lX = (t % n) * tw.tileWidth,
                              !.lY = (t \div n) * tw.tileHeight]

\* the locals of _fbtile_generic_opti at the head of the loop when g groups
\* of parallel tiles are done
OptiAtGroup(c, g) ==
    LET tw == TileWalkOf(c.layout)
        e == OptiEntry(c)
        perRow == e.nTilesInARow \div e.parallel
    IN [e EXCEPT !.cSTL = g * e.parallel * TileLines(tw),
                 !.cSTLPrev = g * e.parallel * TileLines(tw),
                 !.tO = g * e.parallel * TileBytes(tw),
                 !.tOPrev = g * e.parallel * TileBytes(tw),
                 !.curTileInRow = (g % perRow) * e.parallel,
                 !.lX = (g % perRow) * e.parallel * tw.tileWidth,
                 !.lY = (g \div perRow) * tw.tileHeight]

InitOverflow ==
    /\ \E op \in Ops, l \in TiledLayouts :
         \E n \in OverflowTilesInARow(l) :
           \E m \in OverflowTileRows(l, n) :
             \E c \in { Image(op, l, n * TileWalkOf(l).tileWidth,
                              m * TileWalkOf(l).tileHeight, 0, 0) } :
               /\ call = c
               /\ sim \in {IdleWalker} \cup { SimpleAtTile(c, t) : t \in OverflowTiles(n, m) }
               /\ opt \in {IdleWalker}
                          \cup { OptiAtGroup(c, g) : g \in OverflowTiles(n \div ParallelOf(n), m) }
    /\ fc = NoFrameCopy
    /\ gl = NoGetLayoutId
    /\ cv = NoConv
    /\ hd = NoDownload
    /\ tf = NoFilter
    /\ fill = "distinct"
    /\ phase = 0
    /\ ssrc = <<>>
    /\ sdst = <<>>
    /\ osrc = <<>>
    /\ odst = <<>>

\* a walk that has come to its end or has gone on for MaxOverflowSteps
Halted(st) == Finished(st) \/ st.iters >= MaxOverflowSteps

OverflowSimpleCall ==
    /\ sim.pc = "idle"
    /\ sim' = SimpleEntry(call)
    /\ UNCHANGED <<call, fill, phase, ssrc, sdst, opt, osrc, odst, fc, gl, cv, hd, tf>>

\* the locals after one loop iteration of the reference walker
OverflowSimpleStep ==
    /\ sim.pc = "loop"
    /\ sim.cSTL < sim.nSTLines
    /\ sim.iters < MaxOverflowSteps
    /\ sim' = SimpleAdvance(call, Counted(sim, SimpleRuns(call, sim),
                                          TileWalkOf(call.layout).subTileWidth
                                          * TileWalkOf(call.layout).bytesPerPixel))
    /\ UNCHANGED <<call, fill, phase, ssrc, sdst, opt, osrc, odst, fc, gl, cv, hd, tf>>

OverflowSimpleReturn ==
    /\ sim.pc = "loop"
    /\ ~(sim.cSTL < sim.nSTLines)
    /\ sim' = [sim EXCEPT !.pc = "done", !.ret = FBT_OK]
    /\ UNCHANGED <<call, fill, phase, ssrc, sdst, opt, osrc, odst, fc, gl, cv, hd, tf>>

OverflowOptiCall ==
    /\ Halted(sim)
    /\ opt.pc = "idle"
    /\ opt' = OptiEntry(call)
    /\ UNCHANGED <<call, fill, phase, sim, ssrc, sdst, osrc, odst, fc, gl, cv, hd, tf>>

\* the locals after one loop iteration of the optimized walker
OverflowOptiStep ==
    /\ Halted(sim)
    /\ opt.pc = "loop"
    /\ opt.cSTL < opt.nSTLines
    /\ opt.iters < MaxOverflowSteps
    /\ opt' = OptiAdvance(call, Counted(opt, OptiRuns(call, opt),
                                        TileWalkOf(call.layout).subTileWidth
                                        * TileWalkOf(call.layout).bytesPerPixel))
    /\ UNCHANGED <<call, fill, phase, sim, ssrc, sdst, osrc, odst, fc, gl, cv, hd, tf>>

OverflowOptiReturn ==
    /\ Halted(sim)
    /\ opt.pc = "loop"
    /\ ~(opt.cSTL < opt.nSTLines)
    /\ opt' = [opt EXCEPT !.pc = "done", !.ret = FBT_OK]
    /\ UNCHANGED <<call, fill, phase, sim, ssrc, sdst, osrc, odst, fc, gl, cv, hd, tf>>

NextOverflow ==
    \/ OverflowSimpleCall
    \/ OverflowSimpleStep
    \/ OverflowSimpleReturn
    \/ OverflowOptiCall
    \/ OverflowOptiStep
    \/ OverflowOptiReturn

SpecOverflow == InitOverflow /\ [][NextOverflow]_vars

\* lO with the line offset scaled by the pixel size once more
LinOffsetScaled(c, st) ==
    Add32(Mul32(Mul32(st.lY, LinLineSize(c)), TileWalkOf(c.layout).bytesPerPixel),
          Mul32(st.lX, TileWalkOf(c.layout).bytesPerPixel))

\* lO = lY*linLineSize + lX*bytesPerPixel
LinOffset(c, st) ==
    Add32(Mul32(st.lY, LinLineSize(c)), Mul32(st.lX, TileWalkOf(c.layout).bytesPerPixel))

\* the int values _fbtile_generic_simple computes in the loop iteration
\* that starts with the locals st
SimpleInts(c, st) ==
    LET tw == TileWalkOf(c.layout)
        subTileWidthBytes == Mul32(tw.subTileWidth, tw.bytesPerPixel)
    IN {Mul32(c.w, tw.bytesPerPixel), Mul32(c.w, c.h), st.nSTLines, st.cSTL, st.tO,
        st.lX, st.lY, LinOffset(c, st),
        Add32(st.tO, Mul32(tw.subTileHeight, subTileWidthBytes)),
        Add32(st.cSTL, tw.subTileHeight)}
       \cup { Mul32(k, LinLineSize(c)) : k \in 0..(tw.subTileHeight - 1) }
       \cup { Mul32(k, subTileWidthBytes) : k \in 0..(tw.subTileHeight - 1) }

\* the same for _fbtile_generic_opti; the values of the re-base are
\* computed in an iteration that ends at a tile boundary
OptiInts(c, st) ==
    LET tw == TileWalkOf(c.layout)
        subTileWidthBytes == Mul32(tw.subTileWidth, tw.bytesPerPixel)
        tileBytes == Mul32(Mul32(tw.tileWidth, tw.tileHeight), tw.bytesPerPixel)
        rows == 0..(UnrolledRows(tw.subTileHeight) - 1)
        tiles == 0..(st.parallel - 1)
        last == DirChangeIndex(tw, st.cSTL + tw.subTileHeight) = tw.numDirChanges
    IN {Mul32(c.w, tw.bytesPerPixel), Mul32(c.w, st.tH), st.nSTLines, st.cSTL, st.cSTLPrev,
        st.tO, st.tOPrev, st.lX, st.lY, LinOffset(c, st),
        Add32(st.tO, Mul32(tw.subTileHeight, subTileWidthBytes)),
        Add32(st.cSTL, tw.subTileHeight)}
       \cup { Mul32(k, LinLineSize(c)) : k \in rows }
       \cup { Mul32(k, subTileWidthBytes) : k \in rows }
       \cup { Mul32(p, tileBytes) : p \in tiles }
       \cup { Mul32(Mul32(p, tw.tileWidth), tw.bytesPerPixel) : p \in tiles }
       \cup (IF last
             THEN {Mul32(Add32(st.curTileInRow, st.parallel), tw.tileWidth),
                   Add32(st.tOPrev, Mul32(tileBytes, st.parallel)),
                   Add32(st.cSTLPrev,
                         Mul32(Mul32((tw.tileWidth * tw.tileHeight)
                                     \div (tw.subTileWidth * tw.subTileHeight),
                                     tw.subTileHeight), st.parallel))}
             ELSE {})

(***************************************************************************)
(* Properties of the walkers                                               *)
(***************************************************************************)
\* preconditions on the geometry of a call
TightTld(c) == c.w * TileWalkOf(c.layout).bytesPerPixel = TldLineSize(c)
WidthInTiles(c) == c.w % TileWalkOf(c.layout).tileWidth = 0
HeightInTiles(c) == c.h % TileWalkOf(c.layout).tileHeight = 0
WholeSubTileLines(c) == (c.w * c.h) % TileWalkOf(c.layout).subTileWidth = 0
ImageBytes(c) == c.w * c.h * TileWalkOf(c.layout).bytesPerPixel

\* the image bytes of a buffer: the first wb bytes of every line
PixelBytes(buf, wb) == [y \in 1..Len(buf) |-> SubSeq(buf[y], 1, wb)]
PixelSet(buf, wb) ==
    { buf[(i \div wb) + 1][(i % wb) + 1] : i \in 0..(Len(buf) * wb - 1) }
\* the offsets of the image bytes in a buffer of h lines of lineSize bytes
PixelOffsets(h, lineSize, wb) ==
    { (i \div wb) * lineSize + (i % wb) : i \in 0..(h * wb - 1) }

\* C1: tiling a linear image of whole tiles into a tight tiled buffer and
\* detiling the result with the same walker and layout gives back every
\* image byte of the original, for the reference and the optimized walker
\* (the reference walker's result is looked at when it returns, before the
\* optimized walker is called)
RoundTripOf(st, dst) ==
    Finished(st) =>
        /\ Converted(st)
        /\ PixelBytes(dst, call.w * TileWalkOf(call.layout).bytesPerPixel)
             = PixelBytes(InitBuf(fill, call.h, call.dstLineSize),
                          call.w * TileWalkOf(call.layout).bytesPerPixel)

RoundTrip ==
    /\ (phase = 1 /\ call.op = FF_FBTILE_OPS_TILE /\ WidthInTiles(call)
          /\ HeightInTiles(call) /\ TightTld(call))
        => /\ Finished(sim) => Converted(sim)
           /\ Finished(opt) => Converted(opt)
    /\ (phase = 2 /\ call.op = FF_FBTILE_OPS_DETILE /\ WidthInTiles(call)
          /\ HeightInTiles(call) /\ TightTld(call))
        => /\ opt.pc = "idle" => RoundTripOf(sim, sdst)
           /\ RoundTripOf(opt, odst)

RoundTripWitness ==
    /\ phase = 2
    /\ call.op = FF_FBTILE_OPS_DETILE
    /\ call.layout = FF_FBTILE_INTEL_XGEN9
    /\ call.w = 2 * txTileWalk.tileWidth
    /\ call.h = txTileWalk.tileHeight
    /\ fill = "distinct"
    /\ Converted(sim)
    /\ Converted(opt)
    /\ opt.nCopied = ImageBytes(call)

\* C2: in one walker call on an image of whole tiles with a tight tiled
\* buffer, the bytes copied pair the image bytes of the linear buffer one to
\* one with the bytes [0, w*h*bytesPerPixel) of the tiled buffer: exactly
\* w*h*bytesPerPixel bytes are copied, the destination ends up holding every
\* source image byte exactly once, the tiled buffer is exactly that range
\* and no access leaves it
BijectionOf(st, dst) ==
    Finished(st) =>
        /\ Converted(st)
        /\ st.nCopied = ImageBytes(call)
        /\ BufSize(IF LinIsSrc(call.op) THEN dst ELSE ssrc) = ImageBytes(call)
        /\ PixelSet(dst, call.w * TileWalkOf(call.layout).bytesPerPixel)
             = IF LinIsSrc(call.op)
               THEN PixelOffsets(call.h, call.srcLineSize,
                                 call.w * TileWalkOf(call.layout).bytesPerPixel)
               ELSE 0..(ImageBytes(call) - 1)

Bijection ==
    (phase = 1 /\ fill = "distinct" /\ call.op \in Ops /\ WidthInTiles(call)
       /\ HeightInTiles(call) /\ TightTld(call))
    => /\ opt.pc = "idle" => BijectionOf(sim, sdst)
       /\ BijectionOf(opt, odst)

BijectionWitness ==
    /\ phase = 1
    /\ fill = "distinct"
    /\ call.layout = FF_FBTILE_INTEL_XGEN9
    /\ call.op = FF_FBTILE_OPS_TILE
    /\ call.w = 3 * txTileWalk.tileWidth
    /\ call.h = txTileWalk.tileHeight
    /\ Converted(sim)
    /\ Converted(opt)
    /\ BufSize(odst) = ImageBytes(call)

\* C3 as stated: whenever (w*h) % subTileWidth = 0, the tiled line size is
\* tight and w % tileWidth = 0, both walkers return the same status and
\* leave the same destination bytes
BothPreconditions(c) ==
    c.op \in Ops /\ WholeSubTileLines(c) /\ TightTld(c) /\ WidthInTiles(c)

SameOutcome ==
    /\ sim.pc = "done"
    /\ opt.pc = "done"
    /\ sim.ret = opt.ret
    /\ sdst = odst

WalkerEquivalenceAsStated ==
    (Finished(sim) /\ Finished(opt) /\ BothPreconditions(call) /\ ssrc = osrc)
    => SameOutcome

\* C3 amended: the same, for heights that are a multiple of tileHeight
WalkerEquivalence ==
    (Finished(sim) /\ Finished(opt) /\ BothPreconditions(call)
       /\ HeightInTiles(call) /\ ssrc = osrc)
    => SameOutcome

WalkerEquivalenceWitness ==
    /\ Finished(sim)
    /\ Finished(opt)
    /\ BothPreconditions(call)
    /\ HeightInTiles(call)
    /\ call.layout = FF_FBTILE_INTEL_XGEN9
    /\ call.op = FF_FBTILE_OPS_DETILE
    /\ call.w = 2 * txTileWalk.tileWidth
    /\ call.h = txTileWalk.tileHeight
    /\ opt.parallel = 2
    /\ opt.iters < sim.iters
    /\ sdst = odst
    /\ opt.nCopied = ImageBytes(call)

\* C4: when w is not a multiple of tileWidth the optimized walker returns
\* a non-zero error status without entering its loop: no memcpy is made and
\* every byte of dst is as it was before the call
WidthPrecondition ==
    (phase = 1 /\ opt.pc # "idle" /\ ~WidthInTiles(call))
    => /\ opt.pc = "done"
       /\ opt.ret # FBT_OK
       /\ opt.iters = 0
       /\ opt.nCopied = 0
       /\ odst = FreshBuf(call.h, call.dstLineSize)

WidthPreconditionWitness ==
    /\ opt.pc = "done"
    /\ call.layout = FF_FBTILE_INTEL_YGEN9
    /\ call.w = 100
    /\ TightTld(call)
    /\ opt.ret = AVERROR_EINVAL
    /\ odst = FreshBuf(call.h, call.dstLineSize)

\* C5: on a call that passes the line size check, with w a multiple of
\* tileWidth and h not a multiple of tileHeight, the optimized walker
\* returns FBT_OK with every memcpy inside the buffers, the first
\* tH = (h / tileHeight) * tileHeight lines of dst hold what a call with
\* height tH on the first tH lines leaves, and every dst byte of the lines
\* from tH on is untouched (with a tight tiled buffer the tiled offsets
\* >= w*tH*bytesPerPixel are the lines from tH on); with h < tileHeight
\* nothing is copied
HeightClamp ==
    (phase = 1 /\ call.op \in Ops /\ opt.pc # "idle" /\ TightTld(call)
       /\ WidthInTiles(call) /\ ~HeightInTiles(call))
    => LET tH == (call.h \div TileWalkOf(call.layout).tileHeight)
                    * TileWalkOf(call.layout).tileHeight
       IN /\ opt.pc # "crashed"
          /\ ~opt.oob
          /\ \A y \in (tH + 1)..call.h : odst[y] = FreshBuf(1, call.dstLineSize)[1]
          /\ opt.pc = "done"
              => /\ opt.ret = FBT_OK
                 /\ opt.nCopied = call.w * tH * TileWalkOf(call.layout).bytesPerPixel
                 /\ SubSeq(odst, 1, tH)
                      = OptiRun([call EXCEPT !.h = tH], SubSeq(osrc, 1, tH),
                                FreshBuf(tH, call.dstLineSize))

HeightClampWitness ==
    /\ opt.pc = "done"
    /\ call.layout = FF_FBTILE_INTEL_XGEN9
    /\ call.op = FF_FBTILE_OPS_DETILE
    /\ call.w = 2 * txTileWalk.tileWidth
    /\ call.h = 2 * txTileWalk.tileHeight - 1
    /\ opt.tH = txTileWalk.tileHeight
    /\ opt.nCopied > 0
    /\ odst[call.h] = FreshBuf(1, call.dstLineSize)[1]

\* the case h < tileHeight of C5 is reached: a finished call that copied nothing
HeightClampNothingWritten ==
    /\ opt.pc = "done"
    /\ call.h > 0
    /\ call.h < TileWalkOf(call.layout).tileHeight
    /\ WidthInTiles(call)
    /\ opt.ret = FBT_OK
    /\ odst = FreshBuf(call.h, call.dstLineSize)

WidthRemainderInBounds ==
    (phase = 1 /\ ~WidthInTiles(call) /\ WholeSubTileLines(call) /\ TightTld(call)
       /\ LinLineSize(call) = TldLineSize(call))
    => (sim.pc # "crashed" /\ ~sim.oob)

\* C10: in a build with CONFIG_LIBDRM (the build hkvc-run.sh configures),
\* ff_fbtile_getlayoutid maps, for the DRM family, the linear modifier to
\* FF_FBTILE_NONE, the Intel X, Y and Yf tiled modifiers to
\* FF_FBTILE_INTEL_XGEN9, FF_FBTILE_INTEL_YGEN9 and FF_FBTILE_INTEL_YF, and
\* every other modifier to FF_FBTILE_UNKNOWN; every other family gives
\* FF_FBTILE_UNKNOWN; and in every build a value that is not one of the
\* four mapped DRM modifiers never resolves to NONE or to a tiled layout
MappedModifiers ==
    {DRM_FORMAT_MOD_LINEAR, I915_FORMAT_MOD_X_TILED, I915_FORMAT_MOD_Y_TILED,
     I915_FORMAT_MOD_Yf_TILED}

OnAllowList(format) ==
    format \in {"AV_PIX_FMT_RGB0", "AV_PIX_FMT_0RGB", "AV_PIX_FMT_BGR0", "AV_PIX_FMT_0BGR",
                "AV_PIX_FMT_RGBA", "AV_PIX_FMT_ARGB", "AV_PIX_FMT_BGRA", "AV_PIX_FMT_ABGR"}
FallbackCase(f) ==
    \/ f.dstTileLayout # FF_FBTILE_NONE /\ f.srcTileLayout # FF_FBTILE_NONE
    \/ f.dstTileLayout = FF_FBTILE_NONE /\ f.srcTileLayout = FF_FBTILE_NONE
    \/ ~OnAllowList(f.src.format)
    \/ ~OnAllowList(f.dst.format)
    \/ f.dstTileLayout = FF_FBTILE_NONE /\ f.srcTileLayout = FF_FBTILE_UNKNOWN
    \/ f.srcTileLayout = FF_FBTILE_NONE /\ f.dstTileLayout = FF_FBTILE_UNKNOWN
ConversionCase(f) ==
    /\ OnAllowList(f.src.format)
    /\ OnAllowList(f.dst.format)
    /\ \/ f.dstTileLayout = FF_FBTILE_NONE /\ f.srcTileLayout \in TiledLayouts
       \/ f.srcTileLayout = FF_FBTILE_NONE /\ f.dstTileLayout \in TiledLayouts
\* the source bytes as they were before the call
SourceBytes(f) == InitBuf("distinct", f.src.height, f.src.linesize)
\* what a plain copy leaves in dst: the source lines over the fresh lines
PlainCopyOf(f) ==
    [y \in 1..f.dst.height |->
        [x \in 1..f.dst.linesize |->
            IF x <= f.src.linesize THEN SourceBytes(f)[y][x] ELSE -1]]

\* C8: when both layouts are tiled, both are FF_FBTILE_NONE, a pixel format
\* is off the allow-list or the tiled side's layout is FF_FBTILE_UNKNOWN,
\* ff_fbtile_frame_copy makes no tile walk, leaves in dst what
\* av_frame_copy leaves (the bytes of src when the line sizes are equal),
\* sets *status to FF_FBTILE_FRAMECOPY_COPYONLY and returns what
\* av_frame_copy returns
PlainCopyFallback ==
    (fc.pc = "done" /\ FallbackCase(fc))
    => /\ fc.status = FF_FBTILE_FRAMECOPY_COPYONLY
       /\ ~fc.walked
       /\ fc.ret = 0
       /\ fc.src.data = SourceBytes(fc)
       /\ fc.dst.data = PlainCopyOf(fc)
       /\ fc.src.linesize = fc.dst.linesize => fc.dst.data = fc.src.data

PlainCopyFallbackWitness ==
    /\ fc.pc = "done"
    /\ fc.dstTileLayout = FF_FBTILE_NONE
    /\ fc.srcTileLayout = FF_FBTILE_UNKNOWN
    /\ OnAllowList(fc.src.format)
    /\ OnAllowList(fc.dst.format)
    /\ fc.convRet = AVERROR_EINVAL
    /\ fc.status = FF_FBTILE_FRAMECOPY_COPYONLY
    /\ fc.src.linesize = fc.dst.linesize
    /\ fc.dst.data = fc.src.data

\* the conversion of a frame is accepted by the walker
WalkerAccepts(f) ==
    LET tw == FrameTileWalk(f.dstTileLayout, f.srcTileLayout)
        w == IF f.dstTileLayout = FF_FBTILE_NONE THEN f.dst.width ELSE f.src.width
        tldLineSize == IF f.dstTileLayout = FF_FBTILE_NONE THEN f.src.linesize
                       ELSE f.dst.linesize
    IN w % tw.tileWidth = 0 /\ tldLineSize = w * tw.bytesPerPixel

\* C9 as stated: with exactly one layout FF_FBTILE_NONE, both formats on
\* the allow-list and the other layout one of the three tiled layouts, the
\* conversion is invoked with DETILE when dst is linear and TILE when src is
\* linear, and *status is FF_FBTILE_FRAMECOPY_TILECOPY
ConversionPathAsStated ==
    (fc.pc = "done" /\ ConversionCase(fc))
    => /\ fc.convOp = IF fc.dstTileLayout = FF_FBTILE_NONE THEN FF_FBTILE_OPS_DETILE
                      ELSE FF_FBTILE_OPS_TILE
       /\ fc.status = FF_FBTILE_FRAMECOPY_TILECOPY

\* C9: in that case the conversion is invoked with DETILE when dst is
\* linear and TILE when src is linear; when the walker accepts the frame
\* (width a multiple of tileWidth, tiled line size == width*4) it walks
\* inside the buffers, leaves src alone, *status is
\* FF_FBTILE_FRAMECOPY_TILECOPY and the return value FBT_OK; when the
\* walker refuses, nothing is walked, dst gets the plain copy and *status
\* is FF_FBTILE_FRAMECOPY_COPYONLY
ConversionPath ==
    (fc.pc = "done" /\ ConversionCase(fc))
    => /\ fc.convOp = IF fc.dstTileLayout = FF_FBTILE_NONE THEN FF_FBTILE_OPS_DETILE
                      ELSE FF_FBTILE_OPS_TILE
       /\ fc.src.data = SourceBytes(fc)
       /\ WalkerAccepts(fc)
           => /\ fc.convRet = FBT_OK
              /\ fc.status = FF_FBTILE_FRAMECOPY_TILECOPY
              /\ fc.ret = FBT_OK
              /\ fc.walked
              /\ ~fc.oob
              /\ (fc.dst.height >= FrameTileWalk(fc.dstTileLayout, fc.srcTileLayout).tileHeight
                    /\ fc.dst.linesize = fc.src.linesize)
                  => PixelSet(SubSeq(fc.dst.data, 1, FrameTileWalk(fc.dstTileLayout, fc.srcTileLayout).tileHeight), fc.dst.linesize)
                       = PixelSet(SubSeq(fc.src.data, 1, FrameTileWalk(fc.dstTileLayout, fc.srcTileLayout).tileHeight), fc.src.linesize)
       /\ ~WalkerAccepts(fc)
           => /\ fc.convRet = AVERROR_EINVAL
              /\ fc.status = FF_FBTILE_FRAMECOPY_COPYONLY
              /\ fc.ret = 0
              /\ ~fc.walked
              /\ fc.dst.data = PlainCopyOf(fc)

ConversionPathWitness ==
    /\ fc.pc = "done"
    /\ fc.dstTileLayout = FF_FBTILE_NONE
    /\ fc.srcTileLayout = FF_FBTILE_INTEL_YGEN9
    /\ fc.src.format = "AV_PIX_FMT_BGRA"
    /\ fc.src.width = tyTileWalk.tileWidth
    /\ fc.src.height = tyTileWalk.tileHeight
    /\ fc.dst.linesize > fc.src.linesize
    /\ fc.convOp = FF_FBTILE_OPS_DETILE
    /\ fc.status = FF_FBTILE_FRAMECOPY_TILECOPY
    /\ fc.dst.data # FreshBuf(fc.dst.height, fc.dst.linesize)

\* the refusing branch of C9 is reached: a tiled frame with a width remainder
ConversionPathRefused ==
    /\ fc.pc = "done"
    /\ ConversionCase(fc)
    /\ ~WalkerAccepts(fc)
    /\ fc.status = FF_FBTILE_FRAMECOPY_COPYONLY

\* C11: ff_fbtile_checkpixformats returns 0 exactly when both formats are
\* among RGB0, 0RGB, BGR0, 0BGR, RGBA, ARGB, BGRA, ABGR and 1 otherwise
\* (also for AV_PIX_FMT_NONE), and a call of ff_fbtile_frame_copy in which
\* it returned 1 calls no conversion and starts no tile walk
PixFormatGate ==
    (fc.pc = "done" /\ fc.pixErr # Unset)
    => /\ fc.pixErr \in {0, 1}
       /\ fc.pixErr = 0 <=> (OnAllowList(fc.src.format) /\ OnAllowList(fc.dst.format))
       /\ fc.pixErr = 1
           => /\ fc.convOp = Unset
              /\ fc.convRet = Unset
              /\ ~fc.walked
              /\ fc.status = FF_FBTILE_FRAMECOPY_COPYONLY

PixFormatGateWitness ==
    /\ fc.pc = "done"
    /\ fc.dstTileLayout = FF_FBTILE_NONE
    /\ fc.srcTileLayout = FF_FBTILE_INTEL_YGEN9
    /\ fc.src.format = "AV_PIX_FMT_ARGB"
    /\ fc.dst.format = "AV_PIX_FMT_NONE"
    /\ fc.pixErr = 1
    /\ ~fc.walked

\* the accepting side of C11 is reached: two different formats of the
\* allow-list, and the walk is made
PixFormatGateAccepts ==
    /\ fc.pc = "done"
    /\ fc.src.format = "AV_PIX_FMT_0BGR"
    /\ fc.dst.format = "AV_PIX_FMT_RGBA"
    /\ fc.pixErr = 0
    /\ fc.walked

\* what the call of caller c gives when it runs alone from start to end
ConvSequential(c) ==
    fbtile_conv(c.op, c.layout, c.w, c.h, FreshBuf(c.h, c.dstLineSize), c.dstLineSize,
                InitBuf("distinct", c.h, c.srcLineSize), c.srcLineSize, 4)
ConvAsSequential(c, r) == c.ret = r.ret /\ c.dst = r.dst /\ c.src = r.src /\ c.oob = r.oob

\* C12 as stated: the calls write no static variable that a later or
\* concurrent call observes
NoSharedStateAsStated ==
    cv.pc = "run" => (cv.logStateNone = 0 /\ cv.logStateUnknown = 0)

\* C12: the only static variables a call of fbtile_conv writes are its two
\* log states, set by the calls with layout FF_FBTILE_NONE or with no known
\* layout and read only to choose the level of their log message; whatever
\* the interleaving of two calls on buffers of their own, each call ends
\* with the return value and the buffer contents it has when run alone
NoSharedState ==
    cv.pc = "run"
    => /\ cv.logStateNone = 1
           => \E i \in ConvCallers : cv.c[i].layout = FF_FBTILE_NONE /\ cv.c[i].pc = "done"
       /\ cv.logStateUnknown = 1
           => \E i \in ConvCallers :
                 /\ cv.c[i].layout \notin TiledLayouts \cup {FF_FBTILE_NONE}
                 /\ cv.c[i].pc = "done"
       /\ (\A i \in ConvCallers : cv.c[i].pc = "done")
           => \A i \in ConvCallers : ConvAsSequential(cv.c[i], ConvSequential(cv.c[i]))

NoSharedStateWitness ==
    /\ cv.pc = "run"
    /\ cv.c[1].pc = "done"
    /\ cv.c[1].layout = FF_FBTILE_INTEL_YGEN9
    /\ cv.c[1].op = FF_FBTILE_OPS_TILE
    /\ cv.c[1].st.iters = 8
    /\ cv.c[1].ret = FBT_OK
    /\ cv.c[2].pc = "done"
    /\ cv.c[2].layout = FF_FBTILE_INTEL_XGEN9
    /\ cv.c[2].ret = FBT_OK
    /\ cv.c[2].dst # FreshBuf(cv.c[2].h, cv.c[2].dstLineSize)

\* an interleaving of C12 is reached: the second caller has returned while
\* the first is in the middle of its walk
NoSharedStateInterleaved ==
    /\ cv.pc = "run"
    /\ cv.c[1].pc = "walk"
    /\ cv.c[1].st.iters = 4
    /\ cv.c[2].pc = "done"
    /\ cv.c[2].ret = FBT_OK

\* the thresholds of a descriptor increase strictly and the last one is
\* the number of sub-tile rows of one tile
DescriptorShape(tw) ==
    /\ Len(tw.dirChanges) = tw.numDirChanges
    /\ \A i \in 1..(tw.numDirChanges - 1) :
          tw.dirChanges[i].posOffset < tw.dirChanges[i + 1].posOffset
    /\ tw.dirChanges[tw.numDirChanges].posOffset
         = (tw.tileWidth * tw.tileHeight) \div tw.subTileWidth

\* the reference walker has just walked the first tile of a detile call on
\* an image at least two tiles wide
FirstTileWalked ==
    /\ phase = 1
    /\ fill = "distinct"
    /\ call.op = FF_FBTILE_OPS_DETILE
    /\ WidthInTiles(call) /\ HeightInTiles(call) /\ TightTld(call)
    /\ call.w >= 2 * TileWalkOf(call.layout).tileWidth
    /\ opt.pc = "idle"
    /\ sim.pc = "loop"
    /\ sim.cSTL = (TileWalkOf(call.layout).tileWidth * TileWalkOf(call.layout).tileHeight)
                    \div TileWalkOf(call.layout).subTileWidth

\* the bytes the linear buffer holds at the pixels of the first tile
FirstTileBytes(buf, tw) ==
    { buf[(i \div (tw.tileWidth * tw.bytesPerPixel)) + 1]
         [(i % (tw.tileWidth * tw.bytesPerPixel)) + 1] :
        i \in 0..(tw.tileWidth * tw.tileHeight * tw.bytesPerPixel - 1) }

\* C13: each shipped descriptor has strictly increasing thresholds with the
\* last one equal to tileWidth*tileHeight/subTileWidth, and the walk of one
\* tile from the origin, the direction changes applied cumulatively, has
\* copied exactly one tile of bytes, has filled every pixel of the tile
\* with a different byte of the tile's tiled bytes (each pixel visited
\* once, none left out) and stands at x = tileWidth, y = 0
DescriptorInvariant ==
    /\ \A l \in TiledLayouts : DescriptorShape(TileWalkOf(l))
    /\ (phase = 1 /\ opt.pc = "idle" /\ WidthInTiles(call) /\ HeightInTiles(call)
          /\ TightTld(call) /\ call.op \in Ops)
        => ~sim.oob
    /\ FirstTileWalked
        => /\ sim.lX = TileWalkOf(call.layout).tileWidth
           /\ sim.lY = 0
           /\ sim.nCopied = TileWalkOf(call.layout).tileWidth
                              * TileWalkOf(call.layout).tileHeight
                              * TileWalkOf(call.layout).bytesPerPixel
           /\ FirstTileBytes(sdst, TileWalkOf(call.layout))
                = 0..(sim.nCopied - 1)

DescriptorInvariantWitness ==
    /\ FirstTileWalked
    /\ call.layout = FF_FBTILE_INTEL_YF
    /\ call.w = 2 * tyfTileWalk.tileWidth
    /\ call.h = tyfTileWalk.tileHeight
    /\ sim.lX = tyfTileWalk.tileWidth
    /\ sim.lY = 0
    /\ sim.iters = 32

\* what C14 asks of one walker on a descriptor that is not shipped: the
\* mapping is a bijection in the first call and the second call gives the
\* first call's input back
DataDrivenOf(st, dst) ==
    /\ (phase = 1 /\ fill = "distinct") => BijectionOf(st, dst)
    /\ phase = 2 => RoundTripOf(st, dst)

DataDrivenAsStated ==
    call.layout \in DescriptorLayouts
    => /\ DescriptorShape(TileWalkOf(call.layout))
       /\ opt.pc = "idle" => DataDrivenOf(sim, sdst)
       /\ DataDrivenOf(opt, odst)

\* C14 amended: with a descriptor that is not shipped and satisfies the
\* descriptor invariant, on whole tiles and a tight tiled side, the
\* reference walker maps bijectively and round trips for any sub-tile
\* height, the optimized walker when subTileHeight is a multiple of 4
DataDriven ==
    call.layout \in DescriptorLayouts
    => /\ DescriptorShape(TileWalkOf(call.layout))
       /\ opt.pc = "idle" => DataDrivenOf(sim, sdst)
       /\ TileWalkOf(call.layout).subTileHeight % 4 = 0
            => DataDrivenOf(opt, odst)

DataDrivenWitness ==
    /\ phase = 2
    /\ fill = "distinct"
    /\ call.layout = FF_FBTILE_UNKNOWN + 12
    /\ call.op = FF_FBTILE_OPS_DETILE
    /\ call.w = 2 * twSubTile2x4.tileWidth
    /\ call.h = 2 * twSubTile2x4.tileHeight
    /\ Converted(sim)
    /\ Converted(opt)
    /\ sdst = InitBuf(fill, call.h, call.dstLineSize)
    /\ odst = sdst

\* the reference walker round trips the 2x2 sub tile the optimized one
\* cannot walk
DataDrivenReferenceOnly ==
    /\ phase = 2
    /\ fill = "distinct"
    /\ call.layout = FF_FBTILE_UNKNOWN + 11
    /\ call.op = FF_FBTILE_OPS_DETILE
    /\ call.w = 2 * twSubTile2x2.tileWidth
    /\ Converted(sim)
    /\ sdst = InitBuf(fill, call.h, call.dstLineSize)
    /\ opt.pc = "idle"

\* the bytes of every line of buf after its first wb bytes
PaddingSet(buf, wb) ==
    { buf[y][x] : y \in 1..Len(buf), x \in (wb + 1)..BufLineSize(buf) }

PaddedLin(c) ==
    /\ c.op \in Ops
    /\ WidthInTiles(c)
    /\ HeightInTiles(c)
    /\ TightTld(c)
    /\ (IF LinIsSrc(c.op) THEN c.srcLineSize ELSE c.dstLineSize)
         > c.w * TileWalkOf(c.layout).bytesPerPixel

\* one walker on a padded linear side: while it detiles the padding of dst
\* keeps its bytes, and when it is done every image byte of dst holds one
\* tiled byte; when it has tiled, every byte of dst comes from an image
\* byte of src and src is as it was
LinearPaddingOf(st, src, dst) ==
    LET wb == call.w * TileWalkOf(call.layout).bytesPerPixel IN
    /\ ~st.oob
    /\ call.op = FF_FBTILE_OPS_DETILE
         => /\ PaddingSet(dst, wb) = {-1}
            /\ Finished(st) => /\ Converted(st)
                                /\ PixelSet(dst, wb) = 0..(ImageBytes(call) - 1)
    /\ call.op = FF_FBTILE_OPS_TILE
         => /\ src = InitBuf(fill, call.h, call.srcLineSize)
            /\ PixelSet(dst, wb) \subseteq
                  ({-1} \cup PixelOffsets(call.h, call.srcLineSize, wb))
            /\ Finished(st) => /\ Converted(st)
                                /\ st.nCopied = ImageBytes(call)
                                /\ PixelSet(dst, wb)
                                     = PixelOffsets(call.h, call.srcLineSize, wb)

\* C15: with a linear line size above w*bytesPerPixel and a tight tiled
\* side, DETILE writes only the first w*bytesPerPixel bytes of each linear
\* row and leaves the padding as it was, and TILE reads only those bytes, so
\* that no padding byte reaches the tiled output; for both walkers
LinearPadding ==
    (phase = 1 /\ fill = "distinct" /\ PaddedLin(call))
    => /\ LinearPaddingOf(sim, ssrc, sdst)
       /\ LinearPaddingOf(opt, osrc, odst)

LinearPaddingWitness ==
    /\ phase = 1
    /\ fill = "distinct"
    /\ PaddedLin(call)
    /\ call.layout = FF_FBTILE_INTEL_XGEN9
    /\ call.op = FF_FBTILE_OPS_DETILE
    /\ Converted(sim)
    /\ Converted(opt)
    /\ PaddingSet(odst, call.w * txTileWalk.bytesPerPixel) = {-1}
    /\ sdst[2][1] = txTileWalk.subTileWidth * txTileWalk.bytesPerPixel

\* the same for the tiling direction: the tiled bytes all come from image
\* bytes of the padded linear side
LinearPaddingTiled ==
    /\ phase = 1
    /\ fill = "distinct"
    /\ PaddedLin(call)
    /\ call.layout = FF_FBTILE_INTEL_XGEN9
    /\ call.op = FF_FBTILE_OPS_TILE
    /\ Converted(sim)
    /\ Converted(opt)
    /\ sdst = odst
    /\ sdst[2][1] = call.srcLineSize

\* the status of the walker fbtile_conv calls for a known layout, from the
\* checks at the head of _fbtile_generic_opti
ConvWalkerStatus(c) ==
    IF c.w * TileWalkOf(c.layout).bytesPerPixel # TldLineSize(c) THEN AVERROR_EINVAL
    ELSE IF c.w % TileWalkOf(c.layout).tileWidth # 0 THEN AVERROR_EINVAL
    ELSE FBT_OK

ConvUntouched(c) ==
    /\ c.src = InitBuf("distinct", c.h, c.srcLineSize)
    /\ c.dst = FreshBuf(c.h, c.dstLineSize)
    /\ c.st.iters = 0
    /\ c.st.nCopied = 0
    /\ ~c.oob

\* the walker has converted the rows of whole tiles of the image of c: each
\* byte of these rows of dst holds one byte of these rows of src, the rows
\* after them are as they were
ConvCarriedOut(c) ==
    LET tw == TileWalkOf(c.layout)
        tH == (c.h \div tw.tileHeight) * tw.tileHeight
        wb == c.w * tw.bytesPerPixel
    IN /\ ~c.oob
       /\ c.src = InitBuf("distinct", c.h, c.srcLineSize)
       /\ c.st.nCopied = wb * tH
       /\ PixelSet(SubSeq(c.dst, 1, tH), wb) = 0..(wb * tH - 1)
       /\ \A y \in (tH + 1)..c.h : c.dst[y] = [x \in 1..c.dstLineSize |-> -1]

DispatcherStatusOf(c) ==
    /\ c.layout \notin TiledLayouts => ConvUntouched(c)
    /\ c.pc = "done"
         => /\ c.layout = FF_FBTILE_NONE => c.ret = AVERROR_EALREADY
            /\ c.layout \notin TiledLayouts \cup {FF_FBTILE_NONE} => c.ret = AVERROR_EINVAL
            /\ c.layout \in TiledLayouts
                 => /\ c.ret = ConvWalkerStatus(c)
                    /\ c.ret # FBT_OK => ConvUntouched(c)
            /\ c.ret = FBT_OK => (c.layout \in TiledLayouts /\ ConvCarriedOut(c))

DispatcherStatusUnknown ==
    /\ cv.pc = "run"
    /\ cv.c[1].pc = "done"
    /\ cv.c[1].layout = FF_FBTILE_UNKNOWN + 1
    /\ cv.c[1].ret = AVERROR_EINVAL
    /\ cv.c[2].pc = "done"
    /\ cv.c[2].layout = FF_FBTILE_INTEL_XGEN9
    /\ cv.c[2].ret = FBT_OK
    /\ ConvCarriedOut(cv.c[2])

\* C17: a frame hwdownload_filter_frame delivers has been through the
\* detiling the fbdetile option selects, and with fbdetile=none it is the
\* downloaded frame, not detiled, whatever the input frame
DetileAsRequested ==
    (hd.pc = "done" /\ hd.err = 0)
    => /\ hd.fbdetileMode = hd.fbdetile
       /\ hd.fbdetile = TILE_NONE => (hd.st.iters = 0 /\ hd.delivered = HdFrame)

\* the option is obeyed for a frame that is not a DRM frame when it names a
\* layout: the delivered frame is the downloaded one detiled as Tile-Y
DetileAsRequestedObeyed ==
    /\ hd.pc = "done"
    /\ hd.err = 0
    /\ hd.fbdetile = TILE_INTELY
    /\ hd.format = "AV_PIX_FMT_VAAPI"
    /\ hd.fbdetileMode = TILE_INTELY
    /\ hd.delivered # HdFrame
    /\ PixelSet(hd.delivered, HdLineSize) = 0..(HdHeight * HdLineSize - 1)

\* fbdetile=none and a DRM frame with the Tile-Y modifier: the delivered
\* frame is detiled
DetileNotRequested ==
    /\ hd.pc = "done"
    /\ hd.err = 0
    /\ hd.fbdetile = TILE_NONE
    /\ hd.format = "AV_PIX_FMT_DRM_PRIME"
    /\ hd.format_modifier = I915_FORMAT_MOD_Y_TILED
    /\ hd.fbdetileMode = TILE_INTELY
    /\ hd.delivered # HdFrame
    /\ PixelSet(hd.delivered, HdLineSize) = 0..(HdHeight * HdLineSize - 1)

\* fbdetile=none and a frame that is not a DRM frame: the delivered frame
\* holds the bytes of the pool buffer, none of the downloaded ones
DetileNoneUnfilled ==
    /\ hd.pc = "done"
    /\ hd.err = 0
    /\ hd.fbdetile = TILE_NONE
    /\ hd.format = "AV_PIX_FMT_VAAPI"
    /\ hd.delivered \in {HdBuffer(g) : g \in HdPoolBytes}

\* C18: at the head of the loop of the optimized walker, for a width of
\* nTilesInARow >= 1 whole tiles, parallel is the largest p in 1..8 that
\* divides nTilesInARow: it divides the tiles of a row, is at least 1 and
\* at most 8 and at most nTilesInARow
ParallelFactor ==
    (opt.pc = "loop" /\ phase = 0)
    => /\ opt.nTilesInARow = call.w \div TileWalkOf(call.layout).tileWidth
       /\ opt.nTilesInARow >= 1
       /\ opt.parallel \in 1..8
       /\ opt.nTilesInARow % opt.parallel = 0
       /\ \A p \in 1..8 : opt.nTilesInARow % p = 0 => p <= opt.parallel
       /\ opt.parallel <= opt.nTilesInARow

ParallelFactorWitness ==
    /\ opt.pc = "loop"
    /\ phase = 0
    /\ call.layout = FF_FBTILE_INTEL_YGEN9
    /\ call.w = 27 * tyTileWalk.tileWidth
    /\ opt.nTilesInARow = 27
    /\ opt.parallel = 3

\* more tiles in a row than 8 with 8 as a divisor, and a prime number of
\* tiles
ParallelFactorEight ==
    /\ opt.pc = "loop"
    /\ phase = 0
    /\ opt.nTilesInARow = 16
    /\ opt.parallel = 8

ParallelFactorPrime ==
    /\ opt.pc = "loop"
    /\ phase = 0
    /\ opt.nTilesInARow = 37
    /\ opt.parallel = 1
\* the entries of dirChanges whose posOffset divides the counter cSTL
DividingEntries(tw, cSTL) ==
    { i \in 1..tw.numDirChanges : cSTL % tw.dirChanges[i].posOffset = 0 }

\* the entry latest in the list among those of S
LatestEntry(S) == CHOOSE i \in S : \A j \in S : j <= i

\* one loop iteration took the walker locals from st to st2: some entry
\* divides the updated counter, and the cursor moved by the deltas of the
\* latest such entry and of no other (the optimized walker takes x from the
\* next group of tiles when that entry is the last of the list), before the
\* wrap at the end of a row of tiles
TieBreakOf(c, st, st2, opti) ==
    LET tw == TileWalkOf(c.layout)
        D == DividingEntries(tw, st.cSTL + tw.subTileHeight)
    IN /\ D # {}
       /\ LET e == tw.dirChanges[LatestEntry(D)]
              x1 == IF opti /\ LatestEntry(D) = tw.numDirChanges
                    THEN (st.curTileInRow + st.parallel) * tw.tileWidth
                    ELSE st.lX + e.xDelta
              y1 == st.lY + e.yDelta
          IN /\ st2.lX = IF x1 >= c.w THEN 0 ELSE x1
             /\ st2.lY = IF x1 >= c.w THEN y1 + tw.tileHeight ELSE y1

\* C19: every loop iteration of either walker applies exactly one direction
\* change, the entry latest in dirChanges among those whose posOffset divides
\* the updated sub-tile-row counter; the deltas of the earlier entries that
\* divide it as well are not added
TieBreak ==
    [][ /\ sim'.iters = sim.iters + 1 => TieBreakOf(call, sim, sim', FALSE)
        /\ opt'.iters = opt.iters + 1 => TieBreakOf(call, opt, opt', TRUE) ]_vars

\* both walkers have passed the counter value 64 of a Tile-Yf walk, which
\* the entries at 8, 16, 32 and 64 all divide, and moved by (-12, +8) only
TieBreakWitness ==
    /\ call.layout = FF_FBTILE_INTEL_YF
    /\ call.op = FF_FBTILE_OPS_DETILE
    /\ call.w = tyfTileWalk.tileWidth
    /\ call.h = tyfTileWalk.tileHeight
    /\ fill = "zero"
    /\ Cardinality(DividingEntries(tyfTileWalk, 64)) = 4
    /\ sim.pc = "done" /\ sim.iters = 32
    /\ opt.pc = "loop" /\ opt.iters = 8
    /\ opt.lX = 0 /\ opt.lY = 16

\* w is a multiple of tileWidth and h a multiple of tileHeight
WholeTiles(c) ==
    /\ c.w % TileWalkOf(c.layout).tileWidth = 0
    /\ c.h % TileWalkOf(c.layout).tileHeight = 0

\* (w*h)/(subTileWidth*subTileHeight), the sub tiles of the image
SubTilesOf(c) ==
    (c.w * c.h) \div (TileWalkOf(c.layout).subTileWidth * TileWalkOf(c.layout).subTileHeight)

\* a walker that returned FBT_OK from its loop on an image of whole tiles:
\* the reference walker left it with cSTL = (w*h)/subTileWidth after one
\* iteration per sub tile, the optimized walker after that number of
\* iterations divided by its parallel factor
IterationCount ==
    WholeTiles(call)
    => /\ (sim.pc = "done" /\ sim.ret = FBT_OK)
          => /\ sim.cSTL = (call.w * call.h) \div TileWalkOf(call.layout).subTileWidth
             /\ sim.iters = SubTilesOf(call)
       /\ (opt.pc = "done" /\ opt.ret = FBT_OK)
          => /\ SubTilesOf(call) % opt.parallel = 0
             /\ opt.iters = SubTilesOf(call) \div opt.parallel

\* a loop iteration leaves the sub-tile-row counter larger than it was
CounterIncreases ==
    /\ sim'.iters = sim.iters + 1 => sim'.cSTL > sim.cSTL
    /\ opt'.iters = opt.iters + 1 => opt'.cSTL > opt.cSTL

\* C20: for every layout and every w, h >= 0 both walkers come to their end
\* (a return, or the death of the process on an access outside a buffer);
\* the sub-tile-row counter grows in every loop iteration; on an image of
\* whole tiles the reference walker returns with the counter equal to
\* (w*h)/subTileWidth after (w*h)/(subTileWidth*subTileHeight) iterations
\* and the optimized walker after that number divided by the parallel factor
Termination ==
    /\ <>(Finished(sim) /\ Finished(opt))
    /\ [][CounterIncreases]_vars
    /\ []IterationCount

\* both walkers returned from a Tile-X image of 2 by 2 tiles: 4 iterations
\* of the reference walker, 2 of the optimized walker with parallel 2
TerminationWitness ==
    /\ call.layout = FF_FBTILE_INTEL_XGEN9
    /\ call.op = FF_FBTILE_OPS_TILE
    /\ call.w = 2 * txTileWalk.tileWidth
    /\ call.h = 2 * txTileWalk.tileHeight
    /\ sim.pc = "done" /\ sim.ret = FBT_OK /\ sim.iters = 4 /\ sim.cSTL = 32
    /\ opt.pc = "done" /\ opt.ret = FBT_OK /\ opt.parallel = 2 /\ opt.iters = 2

\* both walkers have ended on an image of no pixels without an iteration
TerminationEmpty ==
    /\ call.w = 0
    /\ Finished(sim) /\ sim.iters = 0
    /\ Finished(opt) /\ opt.iters = 0

\* the reference walker has ended on an image half a tile wide
TerminationHalfTile ==
    /\ call.layout = FF_FBTILE_INTEL_YF
    /\ call.w = tyfTileWalk.tileWidth \div 2
    /\ call.h = tyfTileWalk.tileHeight
    /\ Finished(sim)

\* the calls of the sequence up to call k that took the default case
UnknownCallsUpTo(k) == { j \in 1..k : cv.c[j].layout \notin TiledLayouts \cup {FF_FBTILE_NONE} }

\* the messages logged so far that are the 'unknown layout' message
UnknownMessages == { j \in 1..Len(cv.log) : cv.log[j].msg = "Unknown" }

\* C21: in a sequence of fbtile_conv calls the 'unknown layout' message of
\* the first call with an unknown layout has level AV_LOG_WARNING and that
\* of every later such call AV_LOG_VERBOSE, whatever calls with
\* FF_FBTILE_NONE came before; every such call that has returned returned
\* an error, AVERROR(EINVAL)
RateLimitedLog ==
    (cv.pc = "run" /\ Len(cv.c) <= MaxConvCalls)
    => /\ \A j \in UnknownMessages :
            cv.log[j].level = IF \A k \in UnknownMessages : j <= k
                              THEN "AV_LOG_WARNING" ELSE "AV_LOG_VERBOSE"
       /\ Cardinality({ j \in UnknownMessages : cv.log[j].level = "AV_LOG_WARNING" }) <= 1
       /\ \A k \in UnknownCallsUpTo(Len(cv.c)) :
            /\ cv.c[k].pc = "done" => (cv.c[k].ret = AVERROR_EINVAL /\ cv.c[k].ret < 0)
            /\ cv.c[k].pc = "done"
               => \E j \in UnknownMessages : cv.log[j].who = k

\* a call with FF_FBTILE_NONE, then three calls with an unknown layout: one
\* warning for FF_FBTILE_NONE, one warning and two verbose messages for the
\* unknown layout
RateLimitedLogWitness ==
    /\ cv.pc = "run"
    /\ Len(cv.c) = 4
    /\ cv.c[1].layout = FF_FBTILE_NONE
    /\ \A k \in 2..4 : cv.c[k].layout = FF_FBTILE_UNKNOWN /\ cv.c[k].pc = "done"
    /\ [j \in 1..4 |-> cv.log[j].level]
         = <<"AV_LOG_WARNING", "AV_LOG_WARNING", "AV_LOG_VERBOSE", "AV_LOG_VERBOSE">>

\* the memcpy calls of a sequence of runs, as a set
CopySet(runs) == { runs[i] : i \in 1..Len(runs) }

\* the buffers after the memcpys runs of the iteration the optimized walker
\* is about to make
OptiCopied(runs) ==
    CHOOSE r \in { CopyRuns(Mem(call.op, osrc, odst), OptiToTld(call.op), runs, 1,
                            TileWalkOf(call.layout).subTileWidth
                              * TileWalkOf(call.layout).bytesPerPixel, 0) } : TRUE

\* C22: at every loop iteration of the optimized walker on a layout whose
\* subTileHeight is a multiple of 4, the unrolled copy loop and the loop of
\* the build without FBTILER_OPTI_UNROLL make the same memcpy calls, as many
\* of them, and leave the same bytes in both buffers, for TILE and DETILE
UnrollPreserving ==
    (opt.pc = "loop" /\ opt.cSTL < opt.nSTLines /\ phase \in {1, 2}
       /\ TileWalkOf(call.layout).subTileHeight % 4 = 0)
    => /\ CopySet(OptiRuns(call, opt)) = CopySet(OptiRunsRolled(call, opt))
       /\ Len(OptiRuns(call, opt)) = Len(OptiRunsRolled(call, opt))
       /\ OptiCopied(OptiRuns(call, opt)) = OptiCopied(OptiRunsRolled(call, opt))

\* the optimized walker, two Tile-Y tiles in parallel, has made an
\* iteration and is about to make the next, whose memcpys the two loops
\* make in different orders
UnrollPreservingWitness ==
    /\ call.layout = FF_FBTILE_INTEL_YGEN9
    /\ call.op = FF_FBTILE_OPS_TILE
    /\ call.w = 2 * tyTileWalk.tileWidth
    /\ call.h = tyTileWalk.tileHeight
    /\ opt.pc = "loop" /\ opt.parallel = 2 /\ opt.iters = 1
    /\ opt.cSTL < opt.nSTLines
    /\ OptiRuns(call, opt) # OptiRunsRolled(call, opt)
    /\ OptiCopied(OptiRuns(call, opt)) # Mem(call.op, osrc, odst)

\* C23: when detile_generic has returned from a frame of whole tiles with
\* the yf settings, every byte of the destination frame has been written
\* and the destination holds every source byte, each once
FbdetileBijection ==
    (call.layout = TYPE_INTELYF /\ opt.pc = "done" /\ WholeTiles(call))
    => /\ -1 \notin PixelSet(odst, call.w * yfSettings.bytesPerPixel)
       /\ PixelSet(odst, call.w * yfSettings.bytesPerPixel)
            = PixelSet(osrc, call.w * yfSettings.bytesPerPixel)

\* detile_generic has returned from a frame of one tile: four sub tiles
\* copied, the right half of the frame not written, the second half of the
\* source not read
FbdetileHalfCopied ==
    /\ call.layout = TYPE_INTELYF
    /\ call.w = yfSettings.tileWidth /\ call.h = yfSettings.tileHeight
    /\ opt.pc = "done" /\ opt.iters = 4 /\ ~opt.oob
    /\ \A y \in 1..16 : \A x \in 33..64 : odst[y][x] = -1
    /\ \A y \in 1..16 : \A x \in 1..32 : odst[y][x] \in 0..511

\* the source buffer as the caller passed it
SourceAsPassed == InitBuf(fill, call.h, call.srcLineSize)

\* C24: during and after a first call of either walker, with any op value
\* and all accesses inside the buffers, the buffer passed as src holds the
\* bytes it was passed with
SourceReadOnly ==
    (phase = 1 /\ call.layout \in TiledLayouts)
    => /\ ~sim.oob => ssrc = SourceAsPassed
       /\ ~opt.oob => osrc = SourceAsPassed

\* the same for the reference walker with any op value, and for the
\* optimized walker with the op values TILE and DETILE
SourceReadOnlyConversions ==
    (phase = 1 /\ call.layout \in TiledLayouts)
    => /\ ~sim.oob => ssrc = SourceAsPassed
       /\ (~opt.oob /\ call.op \in Ops) => osrc = SourceAsPassed

\* the optimized walker has returned 0 from a call with op NONE: src holds
\* the bytes dst had, and dst is as it was
SourceOverwritten ==
    /\ phase = 1
    /\ call.op = FF_FBTILE_OPS_NONE
    /\ call.layout = FF_FBTILE_INTEL_XGEN9
    /\ opt.pc = "done" /\ opt.ret = FBT_OK /\ ~opt.oob
    /\ osrc = FreshBuf(call.h, call.srcLineSize)
    /\ odst = FreshBuf(call.h, call.dstLineSize)
    /\ sim.pc = "done" /\ ssrc = SourceAsPassed /\ sdst # FreshBuf(call.h, call.dstLineSize)

\* the frames as they were passed to the call
FramesPassed(f) ==
    [dst |-> [f.dst EXCEPT !.data = FreshBuf(f.dst.height, f.dst.linesize)],
     src |-> [f.src EXCEPT !.data = SourceBytes(f)]]

\* what fbtile_conv gives on the frames passed, for the conversion made
ConversionOf(f) ==
    fbtile_conv(f.convOp,
                IF f.convOp = FF_FBTILE_OPS_DETILE THEN f.srcTileLayout ELSE f.dstTileLayout,
                IF f.convOp = FF_FBTILE_OPS_DETILE THEN f.dst.width ELSE f.src.width,
                IF f.convOp = FF_FBTILE_OPS_DETILE THEN f.dst.height ELSE f.src.height,
                FramesPassed(f).dst.data, f.dst.linesize,
                FramesPassed(f).src.data, f.src.linesize, 4)

\* C25: when ff_fbtile_frame_copy has returned, *status has been assigned;
\* it is FF_FBTILE_FRAMECOPY_TILECOPY exactly when fbtile_conv was called
\* and returned 0, which only a walker call on a tiled layout does, and then
\* the function returned FBT_OK with dst as the walker left it; when
\* fbtile_conv was called and returned an error (a width that is not a
\* multiple of tileWidth included), and on every other path, *status is
\* FF_FBTILE_FRAMECOPY_COPYONLY, dst is as av_frame_copy leaves it and the
\* return value is that of av_frame_copy
StatusReporting ==
    fc.pc = "done"
    => /\ fc.status \in {FF_FBTILE_FRAMECOPY_TILECOPY, FF_FBTILE_FRAMECOPY_COPYONLY}
       /\ fc.status = FF_FBTILE_FRAMECOPY_TILECOPY <=> (fc.convOp # Unset /\ fc.convRet = 0)
       /\ fc.status = FF_FBTILE_FRAMECOPY_TILECOPY
           => /\ fc.ret = FBT_OK
              /\ fc.convOp \in Ops
              /\ (IF fc.convOp = FF_FBTILE_OPS_DETILE THEN fc.srcTileLayout
                  ELSE fc.dstTileLayout) \in TiledLayouts
              /\ fc.dst.data = ConversionOf(fc).dst
       /\ fc.status = FF_FBTILE_FRAMECOPY_COPYONLY
           => /\ fc.ret = av_frame_copy(FramesPassed(fc).dst, FramesPassed(fc).src).ret
              /\ fc.dst.data = av_frame_copy(FramesPassed(fc).dst, FramesPassed(fc).src).data
       /\ (fc.convOp # Unset /\ fc.convRet # 0)
           => fc.status = FF_FBTILE_FRAMECOPY_COPYONLY
       /\ (ConversionCase(fc) /\ fc.dst.width
               % FrameTileWalk(fc.dstTileLayout, fc.srcTileLayout).tileWidth # 0)
           => (fc.convRet = AVERROR_EINVAL /\ fc.status = FF_FBTILE_FRAMECOPY_COPYONLY)

\* a tile call to Tile-Y on a frame FrameRemainder pixels wider than a
\* tile: the walker returned AVERROR(EINVAL), dst has the plain copy
StatusReportingWitness ==
    /\ fc.pc = "done"
    /\ fc.srcTileLayout = FF_FBTILE_NONE
    /\ fc.dstTileLayout = FF_FBTILE_INTEL_YGEN9
    /\ fc.src.width = tyTileWalk.tileWidth + FrameRemainder
    /\ fc.src.linesize = fc.dst.linesize
    /\ fc.convOp = FF_FBTILE_OPS_TILE
    /\ fc.convRet = AVERROR_EINVAL
    /\ fc.status = FF_FBTILE_FRAMECOPY_COPYONLY
    /\ fc.ret = 0
    /\ fc.dst.data = SourceBytes(fc)

\* a detile call that the walker carried out: TILECOPY, no plain copy
StatusReportingTileCopy ==
    /\ fc.pc = "done"
    /\ fc.dstTileLayout = FF_FBTILE_NONE
    /\ fc.srcTileLayout = FF_FBTILE_INTEL_YF
    /\ fc.status = FF_FBTILE_FRAMECOPY_TILECOPY
    /\ fc.convRet = 0
    /\ fc.dst.data # PlainCopyOf(fc)
    /\ fc.walked

\* C26: a call of fbtile_conv returns the status and leaves the dst bytes
\* that the call with the same arguments and any other bytesPerPixel gives;
\* when the walker accepts the call, the line size is w * 4, the
\* bytesPerPixel of the layout's descriptor
BppIgnored ==
    cv.pc = "returned"
    => /\ \A b \in 1..MaxBytesPerPixel :
            /\ BppResult(cv, b).ret = cv.out.ret
            /\ BppResult(cv, b).dst = cv.out.dst
       /\ cv.out.ret = 0
           => (cv.layout \in TiledLayouts
               /\ TileWalkOf(cv.layout).bytesPerPixel = 4
               /\ cv.srcLineSize = cv.w * 4)

\* a detile of two Tile-Y tiles called with bytesPerPixel 2 has returned 0
\* and filled dst with the bytes of src
BppIgnoredWitness ==
    /\ cv.pc = "returned"
    /\ cv.layout = FF_FBTILE_INTEL_YGEN9
    /\ cv.op = FF_FBTILE_OPS_DETILE
    /\ cv.w = 2 * tyTileWalk.tileWidth
    /\ cv.bytesPerPixel = 2
    /\ cv.out.ret = 0
    /\ cv.out.walked
    /\ PixelSet(cv.out.dst, cv.dstLineSize) = 0..(cv.h * cv.srcLineSize - 1)

\* C27: in filter_frame of vf_fbtiler.c no frame is freed twice, a frame
\* that goes downstream has not been freed and is not freed afterwards,
\* and when the call has returned no frame is still owned by the filter;
\* with op None or layout None the input frame went downstream with the
\* data it came with and no output frame was allocated; with a failed
\* allocation the input frame was freed once, nothing went downstream and
\* ENOMEM was returned; otherwise the one allocated output frame went
\* downstream and the input frame was freed once
FbtilerFrames == {"in", "out"}
FrameOwnership ==
    /\ \A id \in FbtilerFrames :
         /\ tf.frames[id].frees <= 1
         /\ tf.frames[id].state = "sent" => tf.frames[id].frees = 0
    /\ \A i \in DOMAIN tf.sent : tf.sent[i].state = "owned"
    /\ tf.pc = "done"
       => /\ \A id \in FbtilerFrames : tf.frames[id].state # "owned"
          /\ IF tf.op = FF_FBTILE_OPS_NONE \/ tf.layout = FF_FBTILE_NONE
             THEN /\ tf.sent = <<[id |-> "in", state |-> "owned", data |-> tf.given]>>
                  /\ tf.allocs = 0
                  /\ tf.frames.in.frees = 0
                  /\ tf.frames.out.state = "none"
             ELSE IF tf.out = "NULL"
             THEN /\ tf.sent = <<>>
                  /\ tf.allocs = 0
                  /\ tf.frames.in.frees = 1
                  /\ tf.ret = AVERROR_ENOMEM
             ELSE /\ Len(tf.sent) = 1
                  /\ tf.sent[1].id = "out"
                  /\ tf.allocs = 1
                  /\ tf.frames.in.frees = 1
                  /\ tf.frames.out.frees = 0

\* a tiling call has returned: the output frame went downstream and the
\* input frame is freed
FrameOwnershipWitness ==
    /\ tf.pc = "done"
    /\ tf.op = FF_FBTILE_OPS_TILE
    /\ tf.layout = FF_FBTILE_INTEL_XGEN9
    /\ tf.frames.out.state = "sent"
    /\ tf.frames.in.state = "freed"
    /\ tf.status = FF_FBTILE_FRAMECOPY_TILECOPY
    /\ tf.ret = 0

\* the input frame passed through because the layout is None
FrameOwnershipPassThrough ==
    /\ tf.pc = "done"
    /\ tf.op = FF_FBTILE_OPS_DETILE
    /\ tf.layout = FF_FBTILE_NONE
    /\ tf.frames.in.state = "sent"

\* the allocation of the output frame failed
FrameOwnershipNoMemory ==
    /\ tf.pc = "done"
    /\ tf.op = FF_FBTILE_OPS_DETILE
    /\ tf.layout = FF_FBTILE_INTEL_YF
    /\ tf.out = "NULL"
    /\ tf.frames.in.state = "freed"

\* C28: a frame hwdownload_filter_frame passes downstream holds every byte
\* of the downloaded image, and when detile_this did not detile (mode
\* TILE_NONE, or TILE_NONE_END for an unsupported format modifier) it is
\* equal to the downloaded frame
ForwardsImageData ==
    (hd.pc = "done" /\ hd.err = 0)
    => /\ PixelSet(hd.delivered, HdLineSize) = 0..(HdHeight * HdLineSize - 1)
       /\ hd.layout = FF_FBTILE_NONE => hd.delivered = HdFrame

\* a DRM frame with an unsupported format modifier: detile_this did not
\* detile and the forwarded frame holds the bytes of the pool buffer
ForwardsPoolBytes ==
    /\ hd.pc = "done"
    /\ hd.err = 0
    /\ hd.format = "AV_PIX_FMT_DRM_PRIME"
    /\ hd.format_modifier = <<1, 4>>
    /\ hd.fbdetileMode = TILE_NONE_END
    /\ hd.st.iters = 0
    /\ hd.delivered = HdBuffer(255)

\* C29: at the start of every loop iteration of both walkers the tiled
\* side offset tO equals cSTL * subTileWidth * bytesPerPixel; in the
\* optimized walker also tOPrev equals cSTLPrev * subTileWidth *
\* bytesPerPixel, curTileInRow is a multiple of parallel below nTilesInARow
\* and lX lies inside the tile of index curTileInRow
AtLoopStart(st) == st.pc = "loop" /\ st.cSTL < st.nSTLines
OffsetTracksCounter ==
    LET tw == TileWalkOf(call.layout) IN
    /\ AtLoopStart(sim) => sim.tO = sim.cSTL * tw.subTileWidth * tw.bytesPerPixel
    /\ AtLoopStart(opt)
       => /\ opt.tO = opt.cSTL * tw.subTileWidth * tw.bytesPerPixel
          /\ opt.tOPrev = opt.cSTLPrev * tw.subTileWidth * tw.bytesPerPixel
          /\ opt.curTileInRow % opt.parallel = 0
          /\ opt.curTileInRow >= 0
          /\ opt.curTileInRow < opt.nTilesInARow
          /\ opt.lX >= opt.curTileInRow * tw.tileWidth
          /\ opt.lX < (opt.curTileInRow + 1) * tw.tileWidth

\* the optimized walker, two tiles at a time, has re-based its offset at a
\* tile boundary and is inside the next pair of tiles; the reference walker
\* has run
OffsetTracksCounterWitness ==
    /\ AtLoopStart(opt)
    /\ opt.parallel = 2
    /\ opt.tOPrev > 0
    /\ opt.tO > opt.tOPrev
    /\ opt.lX > opt.curTileInRow * TileWalkOf(call.layout).tileWidth
    /\ sim.tO > 0

\* the locals of a walk at a tile boundary follow from the tiles done: on
\* an image of whole tiles the reference walker that has done cSTL sub tile
\* lines stands where SimpleAtTile puts it, and the optimized walker where
\* OptiAtGroup puts it
AtTileBoundary ==
    LET tw == TileWalkOf(call.layout) IN
    (WholeTiles(call) /\ TightTld(call))
    => /\ (AtLoopStart(sim) /\ sim.cSTL % TileLines(tw) = 0)
          => LET j == SimpleAtTile(call, sim.cSTL \div TileLines(tw))
             IN <<sim.tO, sim.lX, sim.lY, sim.nSTLines>> = <<j.tO, j.lX, j.lY, j.nSTLines>>
       /\ (AtLoopStart(opt) /\ opt.cSTL = opt.cSTLPrev)
          => LET j == OptiAtGroup(call, opt.cSTL \div (TileLines(tw) * opt.parallel))
             IN [opt EXCEPT !.iters = 0, !.nCopied = 0, !.oob = FALSE, !.g = -1] = j

\* C30: on an image of whole tiles of a shipped layout with tight line
\* sizes and w*h*bytesPerPixel < 2^31, every int the two walkers compute
\* in a loop iteration (w*bytesPerPixel, w*h, nSTLines, cSTL, cSTLPrev, tO,
\* tOPrev, lX, lY, lO, the line and tile offsets added to the buffer
\* pointers, the next tO and cSTL and the re-based ones) is at least 0 and
\* at most INT_MAX
InInt(v) == v >= 0 /\ v <= INT_MAX
NoOverflow ==
    (/\ WholeTiles(call)
     /\ TightTld(call)
     /\ LinLineSize(call) = call.w * TileWalkOf(call.layout).bytesPerPixel
     /\ Mul32(Mul32(call.w, call.h), TileWalkOf(call.layout).bytesPerPixel) # Overflowed)
    => /\ AtLoopStart(sim) => \A v \in SimpleInts(call, sim) : InInt(v)
       /\ AtLoopStart(opt) => \A v \in OptiInts(call, opt) : InInt(v)

\* the reference walker is in the last tile of the Tile-Yf image of one
\* tile row with the most tiles, and the optimized walker in the last group
\* of eight tiles of an image of eight tiles in a row
NoOverflowWitness ==
    /\ call.layout = FF_FBTILE_INTEL_YF
    /\ call.w = 8 * TileWalkOf(call.layout).tileWidth
    /\ sim.pc = "done"
    /\ sim.tO = (MaxTiles(call.layout) \div 8) * 8 * TileBytes(TileWalkOf(call.layout))
    /\ AtLoopStart(opt)
    /\ opt.parallel = 8
    /\ opt.tO > INT_MAX - 16 * TileBytes(TileWalkOf(call.layout))
    /\ opt.iters > 0

\* the reference walker in the last tile of the widest Tile-X image: tO and
\* lO are within one tile of INT_MAX
NoOverflowLastTile ==
    /\ call.layout = FF_FBTILE_INTEL_XGEN9
    /\ call.w = MaxTiles(call.layout) * TileWalkOf(call.layout).tileWidth
    /\ AtLoopStart(sim)
    /\ sim.tO = (MaxTiles(call.layout) - 1) * TileBytes(TileWalkOf(call.layout))
    /\ sim.tO > INT_MAX - 2 * TileBytes(TileWalkOf(call.layout))

====
